---- MODULE Spec2Model ----
(***************************************************************************)
(* Detection pipeline of trace-to-events: a raw trace is passed through a  *)
(* FiniteDifferences<2> window (WindowIter) and the resulting              *)
(* (time, [v, dv]) samples are fed to the DifferentialThresholdDetector by *)
(* EventIter.  Real values are modelled by integers (every quantity of the *)
(* model is a small integer, which f64 represents exactly).  Rust's        *)
(* Option<T> is modelled by a sequence: None is << >>, Some(x) is <<x>>.   *)
(* A TraceArray<2, Real> [v, dv] is the tuple <<v, dv>> (value[0] of the   *)
(* source is value[1] here, value[1] of the source is value[2]).           *)
(***************************************************************************)
EXTENDS Integers, Sequences, FiniteSets, TLC

\* Number of raw samples the source yields at most.
MaxSamples == 5
\* Largest begin_duration, end_duration and cool_off (in samples).
MaxDuration == 2
\* Number of results of consumer.recv() the main loop handles at most.
MaxPolls == 3
\* Largest send_eventlist_buffer_size.
MaxBuffer == 2
\* Largest small number of digitisers, and of channels per digitiser, of a
\* digitiser configuration.
MaxDigitisers == 3
\* Largest number of digitisers (or channels) listed by a manual
\* configuration, and largest channel of theirs.
MaxManualDigitisers == 2
MaxChannel == 2
MaxChannelsPerDigitiser == 3
\* Largest reading of the sub-second nanoseconds of the clock.
MaxNanos == 1
\* Largest start and width of a flat or triangular pulse template, and the
\* largest time a pulse is evaluated at.
MaxStart == 2
MaxWidth == 2
MaxValueTime == 5
\* Largest number of items of the source of a WindowIter, largest size and
\* time shift of its window, and largest number of calls of its next().
MaxSourceLen == 3
MaxWindowSize == 3
MaxShift == 1
MaxNextCalls == 4
\* Largest frame index, and largest constant, of a configuration lookup.
MaxFrameIndex == 2
MaxConst == 2
\* Largest number of calls of noisify on a Noise runtime.
MaxNoisify == 3
\* Largest constant smoothing-window-length of a noise source.
MaxWindow == 2
\* Largest number of pulse templates of a simulation, and of the pulse
\* entries of an event-list template.
MaxPulseTemplates == 2
\* Largest pulse-index a configuration file may hold.
MaxPulseIndex == 2
\* Largest number of event-list templates of a simulation.
MaxTemplates == 2
\* Largest number of repetitions asked of generate_event_lists.
MaxRepeat == 3
\* Largest number of event lists handed to generate_traces.
MaxEventLists == 3
\* Largest number of samples of a simulated trace (time_bins).
MaxTimeBins == 2
\* Largest number of pulses the advanced muon assembler yields for a trace.
MaxPulses == 3
\* Largest number of samples of the voltage array of a channel trace.
MaxVoltage == 4
\* Number of calls of EventIter::next made after the one that met the end of
\* the source.
MaxLaterCalls == 2

\* The (begin_threshold, end_threshold) settings: the end threshold below the
\* begin threshold (a derivative between them neither begins nor ends a
\* detection) and above it (a derivative between them does both).
Thresholds == << <<2, 0>>, <<1, 2>> >>
Durations == 0..MaxDuration
PeakHeightModes == {"MaxValue", "ValueAtEndTrigger"}
\* The raw sample values (Intensity) the source yields.
Intensities == 0..3

VARIABLES
    parameters,        \* DifferentialThresholdDetector.parameters
    peak_height_mode,  \* DifferentialThresholdDetector.peak_height_mode
    state,             \* DifferentialThresholdDetector.state
    partial_event,     \* DifferentialThresholdDetector.partial_event
    window,            \* the values held by the FiniteDifferences<2> window
    index,             \* number of raw samples the source has yielded
    source_done,       \* the source has yielded None
    history,           \* one record per call of signal(), in call order: the
                       \* sample (time, value), the state before (from) and
                       \* after (to), whether a partial event was live
                       \* before the call, the partial event after
                       \* update_state (mid) and after the call, and the
                       \* returned Option<ThresholdEvent> (ret)
    yielded            \* the items EventIter::next has returned, in order

\* The detection pipeline (WindowIter, EventIter and the detector).
detectorVars == <<parameters, peak_height_mode, state, partial_event, window,
                  index, source_done, history, yielded>>

VARIABLES
    channel_call,      \* the arguments of the call of find_channel_events, if
                       \* it has been called
    channel_result     \* what the call came to: the (time, voltage) vectors
                       \* it returned, or a panic

\* The call of find_channel_events on a channel trace.
channelVars == <<channel_call, channel_result>>

VARIABLES
    send_eventlist_buffer_size,  \* Cli::send_eventlist_buffer_size
    polls,             \* one record per result of consumer.recv() the main
                       \* loop has handled, in order: the message's place in
                       \* the arrival order (offset), its kind, the number of
                       \* event-list messages built for it, the result of
                       \* offering its delivery future to the channel,
                       \* whether its offset was committed, the counters
                       \* incremented, the length of the channel before and
                       \* after it, and whether the channel was closed and
                       \* the signal delivered before it
    channel,           \* the delivery futures buffered in the mpsc channel
    channel_closed,    \* the receiver has closed the channel
    delivery,          \* the delivery futures made, by number: "Pending", or
                       \* resolved to "Ok" or "Err"
    producer_pc,       \* where the producer task is
    producer_future,   \* the delivery future the producer task is awaiting
    awaited,           \* the delivery futures the producer task has awaited
                       \* to completion, in order
    queue_at_close,    \* the channel's content when the receiver closed it
    sigint_sent,       \* the termination signal has been delivered
    sigint_main,       \* the main loop's listener has a signal to receive
    sigint_producer,   \* the producer task's listener has a signal to receive
    main_pc,           \* where main is
    main_result        \* what main returned, once it has

\* main and the producer task of trace-to-events.
mainVars == <<send_eventlist_buffer_size, polls, channel, channel_closed,
              delivery, producer_pc, producer_future, awaited, queue_at_close,
              sigint_sent, sigint_main, sigint_producer, main_pc, main_result>>

VARIABLES
    advanced_call,     \* the pulses assembled in a call of
                       \* find_advanced_events and its amplitude bounds, if it
                       \* has been called
    advanced_result    \* the pulses that passed its filters and the (time,
                       \* voltage) vectors it returned

\* The call of find_advanced_events from its assembled pulses on.
advancedVars == <<advanced_call, advanced_result>>

VARIABLES
    traces_call,       \* the simulation, frame number and event lists of a
                       \* call of Simulation::generate_traces, if one was made
    traces_slots,      \* per event list, the Result of its parallel task once
                       \* the task has run
    traces_order,      \* the indices of the tasks in the order they completed
    traces_result      \* what generate_traces returned, if it has

\* A call of Simulation::generate_traces.
tracesVars == <<traces_call, traces_slots, traces_order, traces_result>>

VARIABLES
    lists_call,        \* the simulation, index, frame number and repeat of a call
                       \* of Simulation::generate_event_lists, if one was made
    lists_slots,       \* per repetition, the Result of its parallel task once
                       \* the task has run
    lists_order,       \* the repetitions in the order their tasks completed
    lists_result       \* what generate_event_lists returned, if it has

\* A call of Simulation::generate_event_lists.
listsVars == <<lists_call, lists_slots, lists_order, lists_result>>

VARIABLES
    loaded,            \* the Result of deserialising a simulation configuration,
                       \* if one has been read
    template_call,     \* the event-list template and the index drawn in a call
                       \* of get_random_pulse_template, if one was made
    template_result    \* what that call returned

\* The loaded Simulation and a pulse template looked up in it.
loadVars == <<loaded, template_call, template_result>>

VARIABLES
    noise_source,      \* the NoiseSource of a Noise runtime, if one was made
    noise_prev,        \* its buffer of the last samples, oldest first
    noise_log          \* per call of noisify so far: the value given, the
                       \* window length and the sample it obtained, the buffer
                       \* it found and what it returned

\* A Noise runtime.
noiseVars == <<noise_source, noise_prev, noise_log>>

VARIABLES
    digitiser_config,     \* the DigitiserConfig of a simulation, if one was read
    generated_channels,   \* what generate_channels returned, if it was called
    generated_digitisers  \* what generate_digitisers returned, if it was called

\* A DigitiserConfig and what was generated from it.
digitiserVars == <<digitiser_config, generated_channels, generated_digitisers>>

VARIABLES
    lookup_call,       \* the constant or expression of the configuration whose
                       \* value was asked for, with the environment and frame
                       \* index of the call, if a call was made
    lookup_result      \* what the call returned, or that it panicked

\* A lookup of a value of the simulation configuration.
lookupVars == <<lookup_call, lookup_result>>

VARIABLES
    pulse_samples,     \* per call of PulseEvent::sample so far: the template,
                       \* the frame, what the clock read at each distribution
                       \* sampled, and the Result
    value_call         \* a pulse event, a time and the value get_value_at
                       \* returned for them, if it was called

\* Pulse events sampled and evaluated.
pulseVars == <<pulse_samples, value_call>>

VARIABLES
    iter_window,       \* WindowIter.window_function, once the iterator is made
    iter_source,       \* the items WindowIter.source yields, in order
    iter_position,     \* how many of them it has yielded
    iter_pushes,       \* per input sample consumed, in order: the sample, what
                       \* push() reported for it and what output() was then
    iter_returned      \* per call of WindowIter::next, in order: what it
                       \* returned and how many samples were consumed by then

\* A WindowIter over a source of trace points.
windowVars == <<iter_window, iter_source, iter_position, iter_pushes,
                iter_returned>>

\* What the actions of each part leave alone: the variables of the others.
exceptDetector == <<channelVars, mainVars, advancedVars, tracesVars, listsVars, loadVars, noiseVars, digitiserVars, lookupVars, pulseVars, windowVars>>
exceptChannel == <<detectorVars, mainVars, advancedVars, tracesVars, listsVars, loadVars, noiseVars, digitiserVars, lookupVars, pulseVars, windowVars>>
exceptMain == <<detectorVars, channelVars, advancedVars, tracesVars, listsVars, loadVars, noiseVars, digitiserVars, lookupVars, pulseVars, windowVars>>
exceptAdvanced == <<detectorVars, channelVars, mainVars, tracesVars, listsVars, loadVars, noiseVars, digitiserVars, lookupVars, pulseVars, windowVars>>
exceptTraces == <<detectorVars, channelVars, mainVars, advancedVars, listsVars, loadVars, noiseVars, digitiserVars, lookupVars, pulseVars, windowVars>>
exceptLists == <<detectorVars, channelVars, mainVars, advancedVars, tracesVars, loadVars, noiseVars, digitiserVars, lookupVars, pulseVars, windowVars>>
exceptLoad == <<detectorVars, channelVars, mainVars, advancedVars, tracesVars, listsVars, noiseVars, digitiserVars, lookupVars, pulseVars, windowVars>>
exceptNoise == <<detectorVars, channelVars, mainVars, advancedVars, tracesVars, listsVars, loadVars, digitiserVars, lookupVars, pulseVars, windowVars>>
exceptDigitisers == <<detectorVars, channelVars, mainVars, advancedVars, tracesVars, listsVars, loadVars, noiseVars, lookupVars, pulseVars, windowVars>>
exceptLookup == <<detectorVars, channelVars, mainVars, advancedVars, tracesVars, listsVars, loadVars, noiseVars, digitiserVars, pulseVars, windowVars>>
exceptPulses == <<detectorVars, channelVars, mainVars, advancedVars, tracesVars, listsVars, loadVars, noiseVars, digitiserVars, lookupVars, windowVars>>
exceptWindow == <<detectorVars, channelVars, mainVars, advancedVars, tracesVars, listsVars, loadVars, noiseVars, digitiserVars, lookupVars, pulseVars>>

vars == <<detectorVars, channelVars, mainVars, advancedVars, tracesVars, listsVars, loadVars, noiseVars, digitiserVars, lookupVars, pulseVars, windowVars>>

None == << >>
Some(x) == <<x>>

\* The items of a sequence of Option values that are Some, in order.
SomeItems(seq) == SelectSeq(seq, LAMBDA x : x # None)

Max(a, b) == IF a >= b THEN a ELSE b

\* DetectorState
Waiting == [tag |-> "Waiting"]
Beginning(t) == [tag |-> "Beginning", time_begun |-> t]
Detected == [tag |-> "Detected"]
Ending(t) == [tag |-> "Ending", time_ended |-> t]
CoolingDown(t) == [tag |-> "CoolingDown", time_ended |-> t]

\* PartialEvent::new with base_height taken to be the trace value itself.
PartialEvent_new_base_is_value(time, value) ==
    [ time_of_event |-> time,
      trace_array_at_max_deriv |-> value,
      base_height |-> value[1],
      peak_height |-> value[1] ]

\* PartialEvent::new
PartialEvent_new(time, value) ==
    [ time_of_event |-> time,
      trace_array_at_max_deriv |-> value,
      base_height |-> value[1] - value[2],
      peak_height |-> value[1] ]

\* PartialEvent::update with the maximum derivative replaced on a tie.
PartialEvent_update_on_tie(pe, mode, time, value) ==
    LET higher == pe.trace_array_at_max_deriv[2] <= value[2]
    IN  [ time_of_event |-> IF higher THEN time ELSE pe.time_of_event,
          trace_array_at_max_deriv |->
              IF higher THEN value ELSE pe.trace_array_at_max_deriv,
          base_height |-> pe.base_height,
          peak_height |->
              IF mode = "ValueAtEndTrigger"
              THEN value[1] - value[2]
              ELSE Max(pe.peak_height, value[1]) ]

\* PartialEvent::update with the time of the event following the sample in
\* ValueAtEndTrigger mode, as the peak height does.
PartialEvent_update_time_by_mode(pe, mode, time, value) ==
    LET higher == \/ pe.trace_array_at_max_deriv[2] < value[2]
                  \/ mode = "ValueAtEndTrigger"
    IN  [ time_of_event |-> IF higher THEN time ELSE pe.time_of_event,
          trace_array_at_max_deriv |->
              IF higher THEN value ELSE pe.trace_array_at_max_deriv,
          base_height |-> pe.base_height,
          peak_height |->
              IF mode = "ValueAtEndTrigger"
              THEN value[1] - value[2]
              ELSE Max(pe.peak_height, value[1]) ]

\* PartialEvent::update
PartialEvent_update(pe, mode, time, value) ==
    LET higher == pe.trace_array_at_max_deriv[2] < value[2]
    IN  [ time_of_event |-> IF higher THEN time ELSE pe.time_of_event,
          trace_array_at_max_deriv |->
              IF higher THEN value ELSE pe.trace_array_at_max_deriv,
          base_height |-> pe.base_height,
          peak_height |->
              IF mode = "ValueAtEndTrigger"
              THEN value[1] - value[2]
              ELSE Max(pe.peak_height, value[1]) ]

\* PartialEvent::into_event: the ThresholdEvent (time, Data)
into_event(pe) ==
    [ time |-> pe.time_of_event,
      base_height |-> pe.base_height,
      peak_height |-> pe.peak_height ]

(***************************************************************************)
(* DifferentialThresholdDetector::update_state, one operator per arm of    *)
(* its match: each gives the state and the partial event after the call    *)
(* from the parameters p, the state st and the partial event pe before it. *)
(***************************************************************************)

\* The Waiting arm with the threshold compared strictly.
update_state_Waiting_strict(p, st, pe, time, value) ==
    IF value[2] > p.begin_threshold
    THEN [ state |-> IF p.begin_duration = 0
                     THEN Detected
                     ELSE Beginning(time),
           partial_event |-> Some(PartialEvent_new(time, value)) ]
    ELSE [ state |-> st, partial_event |-> pe ]

\* DetectorState::Waiting => ...
update_state_Waiting(p, st, pe, time, value) ==
    IF value[2] >= p.begin_threshold
    THEN [ state |-> IF p.begin_duration = 0
                     THEN Detected
                     ELSE Beginning(time),
           partial_event |-> Some(PartialEvent_new(time, value)) ]
    ELSE [ state |-> st, partial_event |-> pe ]

\* The Beginning arm with the partial event kept on the return to Waiting.
update_state_Beginning_keep(p, st, pe, time, value) ==
    IF time >= st.time_begun + p.begin_duration
    THEN [ state |-> Detected, partial_event |-> pe ]
    ELSE IF value[2] < p.begin_threshold
    THEN [ state |-> Waiting, partial_event |-> pe ]
    ELSE [ state |-> st, partial_event |-> pe ]

\* DetectorState::Beginning { time_begun } => ...
update_state_Beginning(p, st, pe, time, value) ==
    IF time >= st.time_begun + p.begin_duration
    THEN [ state |-> Detected, partial_event |-> pe ]
    ELSE IF value[2] < p.begin_threshold
    THEN [ state |-> Waiting, partial_event |-> None ]
    ELSE [ state |-> st, partial_event |-> pe ]

\* The Detected arm passing through Ending whatever end_duration is.
update_state_Detected_always_ending(p, st, pe, time, value) ==
    IF value[2] <= p.end_threshold
    THEN [ state |-> Ending(time), partial_event |-> pe ]
    ELSE [ state |-> st, partial_event |-> pe ]

\* DetectorState::Detected => ...
update_state_Detected(p, st, pe, time, value) ==
    IF value[2] <= p.end_threshold
    THEN [ state |-> IF p.end_duration = 0
                     THEN IF p.cool_off = 0
                          THEN Waiting
                          ELSE CoolingDown(time)
                     ELSE Ending(time),
           partial_event |-> pe ]
    ELSE [ state |-> st, partial_event |-> pe ]

\* DetectorState::Ending { time_ended } => ...
update_state_Ending(p, st, pe, time, value) ==
    IF time >= st.time_ended + p.end_duration
    THEN [ state |-> IF p.cool_off = 0
                     THEN Waiting
                     ELSE CoolingDown(time),
           partial_event |-> pe ]
    ELSE IF value[2] > p.end_threshold
    THEN [ state |-> Detected, partial_event |-> pe ]
    ELSE [ state |-> st, partial_event |-> pe ]

\* The CoolingDown arm beginning a detection at once when the cool-off is over
\* on a sample whose derivative reaches the begin threshold.
update_state_CoolingDown_retrigger(p, st, pe, time, value) ==
    IF time >= st.time_ended + p.cool_off
    THEN IF value[2] >= p.begin_threshold
         THEN [ state |-> Detected,
                partial_event |-> Some(PartialEvent_new(time, value)) ]
         ELSE [ state |-> Waiting, partial_event |-> pe ]
    ELSE [ state |-> st, partial_event |-> pe ]

\* The CoolingDown arm with the cool-off over one sample early.
update_state_CoolingDown_early(p, st, pe, time, value) ==
    IF time + 1 >= st.time_ended + p.cool_off
    THEN [ state |-> Waiting, partial_event |-> pe ]
    ELSE [ state |-> st, partial_event |-> pe ]

\* DetectorState::CoolingDown { time_ended } => ...
update_state_CoolingDown(p, st, pe, time, value) ==
    IF time >= st.time_ended + p.cool_off
    THEN [ state |-> Waiting, partial_event |-> pe ]
    ELSE [ state |-> st, partial_event |-> pe ]

\* DifferentialThresholdDetector::update_state
update_state(p, st, pe, time, value) ==
    CASE st.tag = "Waiting" -> update_state_Waiting(p, st, pe, time, value)
      [] st.tag = "Beginning" -> update_state_Beginning(p, st, pe, time, value)
      [] st.tag = "Detected" -> update_state_Detected(p, st, pe, time, value)
      [] st.tag = "Ending" -> update_state_Ending(p, st, pe, time, value)
      [] st.tag = "CoolingDown" ->
             update_state_CoolingDown(p, st, pe, time, value)

\* try_take_completed_event with the Ending state left out.
try_take_completed_event_not_ending(st, pe) ==
    IF st.tag \in {"CoolingDown", "Waiting"}
    THEN [ taken |-> pe, partial_event |-> None ]
    ELSE [ taken |-> None, partial_event |-> pe ]

\* DifferentialThresholdDetector::try_take_completed_event: what is taken, and
\* the partial event left behind.
try_take_completed_event(st, pe) ==
    IF st.tag \in {"Ending", "CoolingDown", "Waiting"}
    THEN [ taken |-> pe, partial_event |-> None ]
    ELSE [ taken |-> None, partial_event |-> pe ]

\* signal() with the update of a live partial event left out.
signal_no_update(p, mode, st, pe, time, value) ==
    LET upd == update_state(p, st, pe, time, value)
        took == try_take_completed_event(upd.state, upd.partial_event)
    IN  IF took.taken # None
        THEN [ state |-> upd.state,
               partial_event |-> took.partial_event,
               ret |-> Some(into_event(
                          PartialEvent_update(took.taken[1], mode, time, value))) ]
        ELSE [ state |-> upd.state,
               partial_event |-> took.partial_event,
               ret |-> None ]

\* DifferentialThresholdDetector::signal: the detector after the call and the
\* returned Option<ThresholdEvent>.
signal(p, mode, st, pe, time, value) ==
    LET upd == update_state(p, st, pe, time, value)
        took == try_take_completed_event(upd.state, upd.partial_event)
    IN  IF took.taken # None
        THEN [ state |-> upd.state,
               partial_event |-> took.partial_event,
               ret |-> Some(into_event(
                          PartialEvent_update(took.taken[1], mode, time, value))) ]
        ELSE [ state |-> upd.state,
               partial_event |->
                   IF took.partial_event # None
                   THEN Some(PartialEvent_update(took.partial_event[1], mode,
                                                 time, value))
                   ELSE None,
               ret |-> None ]

\* A detector made by DifferentialThresholdDetector::new(p, mode) and signalled
\* with the first n of the given samples in turn: its state, its partial event
\* and the values signal() returned.
RECURSIVE RunDetector(_, _, _, _)
RunDetector(p, mode, samples, n) ==
    IF n = 0
    THEN [ state |-> Waiting, partial_event |-> None, rets |-> << >> ]
    ELSE LET prev == RunDetector(p, mode, samples, n - 1)
             res == signal(p, mode, prev.state, prev.partial_event,
                           samples[n].time, samples[n].value)
         IN  [ state |-> res.state,
               partial_event |-> res.partial_event,
               rets |-> Append(prev.rets, res.ret) ]

\* finish() with the partial event in progress dispatched.
finish_dispatch(pe) ==
    [ partial_event |-> None,
      ret |-> IF pe # None THEN Some(into_event(pe[1])) ELSE None ]

\* finish() returning the event of a default partial event when none is live.
finish_unwrap_or_default(pe) ==
    [ partial_event |-> None,
      ret |-> Some(into_event(IF pe # None
                              THEN pe[1]
                              ELSE PartialEvent_new(0, <<0, 0>>))) ]

\* DifferentialThresholdDetector::finish: the partial event after the call and
\* the returned Option<ThresholdEvent>.
finish(pe) ==
    [ partial_event |-> None, ret |-> None ]

\* FiniteDifferences<2>::push: the window after the push and whether an
\* output is ready.
FiniteDifferences_push(w, v) ==
    LET pushed == IF Len(w) < 2 THEN Append(w, v) ELSE <<w[2], v>>
    IN  [ window |-> pushed, ready |-> Len(pushed) = 2 ]

\* FiniteDifferences<2>::output: [v, dv], dv the backward difference.
FiniteDifferences_output(w) ==
    <<w[2], w[2] - w[1]>>

\* FiniteDifferences<2>::apply_time_shift: the shift (N - 1) / 2 is 0.
apply_time_shift(time) == time

\* find_channel_events has not been called.
NoChannelCall ==
    /\ channel_call = None
    /\ channel_result = None

\* find_advanced_events has not been called.
NoAdvancedCall ==
    /\ advanced_call = None
    /\ advanced_result = None

\* generate_traces has not been called.
NoTracesCall ==
    /\ traces_call = None
    /\ traces_slots = << >>
    /\ traces_order = << >>
    /\ traces_result = None

\* generate_event_lists has not been called.
NoListsCall ==
    /\ lists_call = None
    /\ lists_slots = << >>
    /\ lists_order = << >>
    /\ lists_result = None

\* No simulation configuration has been read.
NoSimulation ==
    /\ loaded = None
    /\ template_call = None
    /\ template_result = None

\* No Noise runtime has been made.
NoNoise ==
    /\ noise_source = None
    /\ noise_prev = << >>
    /\ noise_log = << >>

\* No DigitiserConfig has been read.
NoDigitiserConfig ==
    /\ digitiser_config = None
    /\ generated_channels = None
    /\ generated_digitisers = None

\* No value of the configuration has been looked up.
NoLookup ==
    /\ lookup_call = None
    /\ lookup_result = None

\* No pulse has been sampled.
NoPulses ==
    /\ pulse_samples = << >>
    /\ value_call = None

\* No WindowIter has been made outside the detection pipeline.
NoWindowIter ==
    /\ iter_window = None
    /\ iter_source = << >>
    /\ iter_position = 0
    /\ iter_pushes = << >>
    /\ iter_returned = << >>

\* trace-to-events is not running.
NoMain ==
    /\ send_eventlist_buffer_size = 0
    /\ polls = << >>
    /\ channel = << >>
    /\ channel_closed = FALSE
    /\ delivery = << >>
    /\ producer_pc = "none"
    /\ producer_future = None
    /\ awaited = << >>
    /\ queue_at_close = None
    /\ sigint_sent = FALSE
    /\ sigint_main = FALSE
    /\ sigint_producer = FALSE
    /\ main_pc = "none"
    /\ main_result = None

\* No detection pipeline has been built outside find_channel_events.
NoPipeline ==
    /\ parameters = None
    /\ peak_height_mode = None
    /\ state = Waiting
    /\ partial_event = None
    /\ window = << >>
    /\ index = 0
    /\ source_done = FALSE
    /\ history = << >>
    /\ yielded = << >>

Init ==
    /\ \E th \in DOMAIN Thresholds : \E bd, ed, co \in Durations :
         parameters = [ begin_threshold |-> Thresholds[th][1],
                        begin_duration |-> bd,
                        end_threshold |-> Thresholds[th][2],
                        end_duration |-> ed,
                        cool_off |-> co ]
    /\ peak_height_mode \in PeakHeightModes
    /\ state = Waiting
    /\ partial_event = None
    /\ window = << >>
    /\ index = 0
    /\ source_done = FALSE
    /\ history = << >>
    /\ yielded = << >>
    /\ NoChannelCall
    /\ NoMain
    /\ NoAdvancedCall
    /\ NoTracesCall
    /\ NoListsCall
    /\ NoSimulation
    /\ NoNoise
    /\ NoDigitiserConfig
    /\ NoLookup
    /\ NoPulses
    /\ NoWindowIter

\* WindowIter::next, one turn of its loop on a raw sample the window is not
\* ready on: the sample is consumed and nothing reaches the detector.
Prime ==
    /\ ~source_done
    /\ index < MaxSamples
    /\ \E v \in Intensities :
         LET pushed == FiniteDifferences_push(window, v)
         IN  /\ ~pushed.ready
             /\ window' = pushed.window
    /\ index' = index + 1
    /\ UNCHANGED <<parameters, peak_height_mode, state, partial_event,
                   source_done, history, yielded>>
    /\ UNCHANGED exceptDetector

\* One turn of EventIter::next with the event put in front of those yielded
\* before it.
Signal_yield_front ==
    /\ ~source_done
    /\ index < MaxSamples
    /\ \E v \in Intensities :
         LET pushed == FiniteDifferences_push(window, v)
             time == apply_time_shift(index)
             value == FiniteDifferences_output(pushed.window)
             upd == update_state(parameters, state, partial_event, time, value)
             res == signal(parameters, peak_height_mode, state, partial_event,
                           time, value)
         IN  /\ pushed.ready
             /\ window' = pushed.window
             /\ state' = res.state
             /\ partial_event' = res.partial_event
             /\ history' = Append(history,
                    [ time |-> time, value |-> value,
                      from |-> state, to |-> res.state,
                      live |-> partial_event # None,
                      mid |-> upd.partial_event,
                      after |-> res.partial_event,
                      ret |-> res.ret ])
             /\ yielded' = IF res.ret # None
                           THEN <<res.ret>> \o yielded
                           ELSE yielded
    /\ index' = index + 1
    /\ UNCHANGED <<parameters, peak_height_mode, source_done>>
    /\ UNCHANGED exceptDetector

\* EventIter::next, one turn of its loop on Some(trace): WindowIter yields
\* (time, [v, dv]) for the raw sample (index, v) and the detector is signalled.
Signal ==
    /\ ~source_done
    /\ index < MaxSamples
    /\ \E v \in Intensities :
         LET pushed == FiniteDifferences_push(window, v)
             time == apply_time_shift(index)
             value == FiniteDifferences_output(pushed.window)
             upd == update_state(parameters, state, partial_event, time, value)
             res == signal(parameters, peak_height_mode, state, partial_event,
                           time, value)
         IN  /\ pushed.ready
             /\ window' = pushed.window
             /\ state' = res.state
             /\ partial_event' = res.partial_event
             /\ history' = Append(history,
                    [ time |-> time, value |-> value,
                      from |-> state, to |-> res.state,
                      live |-> partial_event # None,
                      mid |-> upd.partial_event,
                      after |-> res.partial_event,
                      ret |-> res.ret ])
             /\ yielded' = IF res.ret # None
                           THEN Append(yielded, res.ret)
                           ELSE yielded
    /\ index' = index + 1
    /\ UNCHANGED <<parameters, peak_height_mode, source_done>>
    /\ UNCHANGED exceptDetector

\* EventIter::next on None: the source has ended and finish() is returned.
Finish ==
    /\ ~source_done
    /\ LET res == finish(partial_event)
       IN  /\ partial_event' = res.partial_event
           /\ yielded' = Append(yielded, res.ret)
    /\ source_done' = TRUE
    /\ UNCHANGED <<parameters, peak_height_mode, state, window, index, history>>
    /\ UNCHANGED exceptDetector

Next == Prime \/ Signal \/ Finish

Spec == Init /\ [][Next]_vars

\* The same pipeline, for the properties that compare whole runs (the order
\* of the samples and events, a second detector on the same input); they are
\* checked in a run of their own.
SpecRuns == Init /\ [][Next]_vars

\* The same pipeline, for the properties of the state changes and of the
\* bookkeeping of partial events over every prefix of the input.
SpecTransitions == Init /\ [][Next]_vars

\* EventIter::next called again after the source has ended: the source (a
\* slice iterator under enumerate, map and WindowIter) yields None again and
\* finish() is returned again.
FinishAgain ==
    /\ source_done
    /\ Len(yielded) - 1 < MaxLaterCalls
    /\ LET res == finish(partial_event)
       IN  /\ partial_event' = res.partial_event
           /\ yielded' = Append(yielded, res.ret)
    /\ UNCHANGED <<parameters, peak_height_mode, state, window, index,
                   source_done, history>>
    /\ UNCHANGED exceptDetector

\* The pipeline on an input the detector receives no sample of: a raw trace of
\* no sample, or of the one sample the FiniteDifferences<2> window is primed
\* with (Prime is enabled on the first raw sample only).
NextEmpty == Prime \/ Finish \/ FinishAgain

SpecEmpty == Init /\ [][NextEmpty]_vars

(***************************************************************************)
(* find_channel_events on one channel trace.  The voltage array of a       *)
(* ChannelTrace is optional: None when the trace carries none, else        *)
(* Some(the samples).                                                      *)
(***************************************************************************)
Polarities == {"Positive", "Negative"}
PeakHeightBases == {"TraceBaseline", "PulseBaseline"}
\* The sample times (ns) and baselines find_channel_events is called with.
SampleTimes == {1, 2}
Baselines == {0, 1}
\* The begin_duration, end_duration and cool_off of the detector settings.
SettingDurations == {0, 1}

\* The sequences over S of length at most n.
SeqsUpTo(S, n) == UNION { [1..k -> S] : k \in 0..n }

\* `x as Time`: a float to integer cast saturates (no event time of the model
\* reaches the upper end of Time).
as_Time(x) == IF x < 0 THEN 0 ELSE x

\* `x as Intensity`: a float to integer cast saturates at the ends of u16.
as_Intensity(x) == IF x < 0 THEN 0 ELSE IF x > 65535 THEN 65535 ELSE x

\* The iterator `raw`: sample i (from 0) of the voltage array v as
\* (i * sample_time, sign * (v - baseline)).
raw(v, sample_time, polarity, baseline) ==
    LET sign == IF polarity = "Positive" THEN 1 ELSE -1
    IN  [ i \in 1..Len(v) |->
            [ time |-> (i - 1) * sample_time,
              value |-> sign * (v[i] - baseline) ] ]

\* WindowIter over the first n items of source with a FiniteDifferences<2>
\* window: the window after them and the items WindowIter has yielded.
RECURSIVE WindowIter(_, _)
WindowIter(source, n) ==
    IF n = 0
    THEN [ window |-> << >>, out |-> << >> ]
    ELSE LET prev == WindowIter(source, n - 1)
             pushed == FiniteDifferences_push(prev.window, source[n].value)
         IN  [ window |-> pushed.window,
               out |-> IF pushed.ready
                       THEN Append(prev.out,
                                [ time |-> apply_time_shift(source[n].time),
                                  value |-> FiniteDifferences_output(pushed.window) ])
                       ELSE prev.out ]

\* The value of trace.voltage().unwrap(), or a panic.
Panicked == [ tag |-> "Panicked" ]

\* find_differential_threshold_events
find_differential_threshold_events(voltage, sample_time, polarity, baseline, p) ==
    IF voltage = None
    THEN Panicked
    ELSE LET source == raw(voltage[1], sample_time, polarity, baseline)
             samples == WindowIter(source, Len(source)).out
             detector == RunDetector(
                 [ begin_threshold |-> p.begin_threshold,
                   begin_duration |-> p.begin_duration,
                   end_threshold |-> p.end_threshold,
                   end_duration |-> p.end_duration,
                   cool_off |-> p.cool_off ],
                 p.peak_height_mode, samples, Len(samples))
             pulses == SomeItems(detector.rets)
         IN  [ tag |-> "Returned",
               time |-> [ n \in 1..Len(pulses) |-> as_Time(pulses[n][1].time) ],
               voltage |->
                   [ n \in 1..Len(pulses) |->
                       IF p.peak_height_basis = "TraceBaseline"
                       THEN as_Intensity(pulses[n][1].peak_height)
                       ELSE as_Intensity(pulses[n][1].peak_height
                                         - pulses[n][1].base_height) ] ]

\* find_channel_events with Mode::DifferentialThresholdDiscriminator.
find_channel_events(trace, sample_time, detector_settings) ==
    find_differential_threshold_events(trace.voltage, sample_time,
                                       detector_settings.polarity,
                                       detector_settings.baseline,
                                       detector_settings.mode)

InitChannel ==
    /\ NoPipeline
    /\ NoChannelCall
    /\ NoMain
    /\ NoAdvancedCall
    /\ NoTracesCall
    /\ NoListsCall
    /\ NoSimulation
    /\ NoNoise
    /\ NoDigitiserConfig
    /\ NoLookup
    /\ NoPulses
    /\ NoWindowIter

\* One call of find_channel_events, on any channel trace and any setting.
FindChannelEvents ==
    /\ channel_call = None
    /\ \E voltage \in {None} \cup { Some(v) : v \in SeqsUpTo(Intensities, MaxVoltage) } :
       \E sample_time \in SampleTimes, polarity \in Polarities,
          baseline \in Baselines, th \in DOMAIN Thresholds,
          d \in SettingDurations, mode \in PeakHeightModes,
          basis \in PeakHeightBases :
         LET trace == [ voltage |-> voltage ]
             detector_settings ==
                 [ polarity |-> polarity,
                   baseline |-> baseline,
                   mode |-> [ begin_threshold |-> Thresholds[th][1],
                              begin_duration |-> d,
                              end_threshold |-> Thresholds[th][2],
                              end_duration |-> d,
                              cool_off |-> d,
                              peak_height_mode |-> mode,
                              peak_height_basis |-> basis ] ]
         IN  /\ channel_call' = Some([ trace |-> trace,
                                       sample_time |-> sample_time,
                                       detector_settings |-> detector_settings ])
             /\ channel_result' =
                    Some(find_channel_events(trace, sample_time, detector_settings))
    /\ UNCHANGED exceptChannel

NextChannel == FindChannelEvents

SpecChannel == InitChannel /\ [][NextChannel]_vars

(***************************************************************************)
(* main and the producer task.  consumer.recv() yields a Kafka error or a  *)
(* message, which has no payload ("NoPayload"), a payload without the      *)
(* trace identifier ("Unexpected"), a payload that does not decode         *)
(* ("Undecodable") or one that does ("Trace").  producer.send_result and   *)
(* consumer.commit_message are taken to succeed, as the expect and the     *)
(* unwrap on them assert.  A tokio select! with several branches ready     *)
(* takes any one of them.  When main returns the runtime shuts down and a  *)
(* producer task that has not returned is cancelled.  The termination      *)
(* signal is delivered at most once.                                       *)
(***************************************************************************)
MessageKinds == {"NoPayload", "Unexpected", "Undecodable", "Trace"}

\* Sender::try_send of the future f on the channel chan of capacity cap.
try_send(chan, closed, cap, f) ==
    IF closed
    THEN [ result |-> "Closed", channel |-> chan ]
    ELSE IF Len(chan) >= cap
    THEN [ result |-> "Full", channel |-> chan ]
    ELSE [ result |-> "Ok", channel |-> Append(chan, f) ]

\* process_digitiser_trace_message with the error of try_send logged and
\* dropped.
process_digitiser_trace_message_error_dropped(chan, closed, cap, f) ==
    LET sent == try_send(chan, closed, cap, f)
    IN  [ result |-> "Ok",
          built |-> 1,
          offered |-> sent.result,
          counted |-> <<"MESSAGES_RECEIVED Trace">>,
          channel |-> sent.channel ]

\* process_digitiser_trace_message: one event-list message is built, sent to
\* the producer and its delivery future f offered to the channel.
process_digitiser_trace_message(chan, closed, cap, f) ==
    LET sent == try_send(chan, closed, cap, f)
    IN  [ result |-> sent.result,
          built |-> 1,
          offered |-> sent.result,
          counted |-> <<"MESSAGES_RECEIVED Trace">>,
          channel |-> sent.channel ]

\* process_kafka_message with the test of the identifier inverted.
process_kafka_message_identifier_inverted(kind, chan, closed, cap, f) ==
    IF kind = "Unexpected"
    THEN process_digitiser_trace_message(chan, closed, cap, f)
    ELSE [ result |-> "Ok", built |-> 0, offered |-> "None",
           counted |-> IF kind = "NoPayload"
                       THEN << >>
                       ELSE <<"MESSAGES_RECEIVED Unexpected">>,
           channel |-> chan ]

\* process_kafka_message with a message that is not a trace counted as an
\* unexpected one whatever fails in it.
process_kafka_message_all_unexpected(kind, chan, closed, cap, f) ==
    IF kind = "Trace"
    THEN process_digitiser_trace_message(chan, closed, cap, f)
    ELSE [ result |-> "Ok", built |-> 0, offered |-> "None",
           counted |-> <<"MESSAGES_RECEIVED Unexpected">>,
           channel |-> chan ]

\* process_kafka_message: the Result, the number of event-list messages
\* built, the result of offering the delivery future, the counters
\* incremented, in order, and the channel after the call.
process_kafka_message(kind, chan, closed, cap, f) ==
    IF kind = "Trace"
    THEN process_digitiser_trace_message(chan, closed, cap, f)
    ELSE [ result |-> "Ok", built |-> 0, offered |-> "None",
           counted |-> CASE kind = "Undecodable" ->
                                <<"FAILURES UnableToDecodeMessage">>
                         [] kind = "Unexpected" ->
                                <<"MESSAGES_RECEIVED Unexpected">>
                         [] kind = "NoPayload" -> << >>,
           channel |-> chan ]

\* The producer task once main has returned: cancelled unless it had returned.
AtExit(pc) == IF pc = "done" THEN "done" ELSE "cancelled"

\* main up to the loop: create_producer_task has made the channel and spawned
\* produce_to_kafka, and both signal listeners are registered.
InitMain ==
    /\ NoPipeline
    /\ NoChannelCall
    /\ NoAdvancedCall
    /\ NoTracesCall
    /\ send_eventlist_buffer_size \in 1..MaxBuffer
    /\ polls = << >>
    /\ channel = << >>
    /\ channel_closed = FALSE
    /\ delivery = << >>
    /\ producer_pc = "select"
    /\ producer_future = None
    /\ awaited = << >>
    /\ queue_at_close = None
    /\ sigint_sent = FALSE
    /\ sigint_main = FALSE
    /\ sigint_producer = FALSE
    /\ main_pc = "select"
    /\ main_result = None
    /\ NoListsCall
    /\ NoSimulation
    /\ NoNoise
    /\ NoDigitiserConfig
    /\ NoLookup
    /\ NoPulses
    /\ NoWindowIter

\* The operating system delivers the termination signal: both listeners get
\* it.
Sigint ==
    /\ main_pc # "exited"
    /\ ~sigint_sent
    /\ sigint_sent' = TRUE
    /\ sigint_main' = TRUE
    /\ sigint_producer' = TRUE
    /\ UNCHANGED <<send_eventlist_buffer_size, polls, channel, channel_closed,
                   delivery, producer_pc, producer_future, awaited,
                   queue_at_close, main_pc, main_result>>
    /\ UNCHANGED exceptMain

\* The broker reports on a delivery: the future resolves.
DeliveryResolves ==
    /\ main_pc # "exited"
    /\ \E f \in DOMAIN delivery : \E report \in {"Ok", "Err"} :
         /\ delivery[f] = "Pending"
         /\ delivery' = [delivery EXCEPT ![f] = report]
    /\ UNCHANGED <<send_eventlist_buffer_size, polls, channel, channel_closed,
                   producer_pc, producer_future, awaited, queue_at_close,
                   sigint_sent, sigint_main, sigint_producer, main_pc,
                   main_result>>
    /\ UNCHANGED exceptMain

\* main's loop, the branch msg = consumer.recv() with Ok(m): the message is
\* processed and, if that returns Ok, its offset committed; an error is
\* returned from main.
MainMessage ==
    /\ main_pc = "select"
    /\ Len(polls) < MaxPolls
    /\ \E kind \in MessageKinds :
         LET f == Len(delivery) + 1
             res == process_kafka_message(kind, channel, channel_closed,
                                          send_eventlist_buffer_size, f)
         IN  /\ polls' = Append(polls,
                    [ offset |-> Len(polls) + 1,
                      kind |-> kind,
                      built |-> res.built,
                      offered |-> res.offered,
                      result |-> res.result,
                      committed |-> res.result = "Ok",
                      counted |-> res.counted,
                      queued |-> Len(channel),
                      queued_after |-> Len(res.channel),
                      closed |-> channel_closed,
                      signalled |-> sigint_sent ])
             /\ channel' = res.channel
             /\ delivery' = IF res.built = 1
                            THEN Append(delivery, "Pending")
                            ELSE delivery
             /\ IF res.result = "Ok"
                THEN UNCHANGED <<main_pc, main_result, producer_pc>>
                ELSE /\ main_pc' = "exited"
                     /\ main_result' = Some(res.result)
                     /\ producer_pc' = AtExit(producer_pc)
    /\ UNCHANGED <<send_eventlist_buffer_size, channel_closed, producer_future,
                   awaited, queue_at_close, sigint_sent, sigint_main,
                   sigint_producer>>
    /\ UNCHANGED exceptMain

\* main's loop, the branch msg = consumer.recv() with Err(e): a warning.
MainKafkaError ==
    /\ main_pc = "select"
    /\ Len(polls) < MaxPolls
    /\ polls' = Append(polls,
           [ offset |-> Len(polls) + 1,
             kind |-> "KafkaError",
             built |-> 0,
             offered |-> "None",
             result |-> "Ok",
             committed |-> FALSE,
             counted |-> << >>,
             queued |-> Len(channel),
             queued_after |-> Len(channel),
             closed |-> channel_closed,
             signalled |-> sigint_sent ])
    /\ UNCHANGED <<send_eventlist_buffer_size, channel, channel_closed,
                   delivery, producer_pc, producer_future, awaited,
                   queue_at_close, sigint_sent, sigint_main, sigint_producer,
                   main_pc, main_result>>
    /\ UNCHANGED exceptMain

\* main's loop, the branch sigint.recv(): main awaits the producer task.
MainSigint ==
    /\ main_pc = "select"
    /\ sigint_main
    /\ sigint_main' = FALSE
    /\ main_pc' = "joining"
    /\ UNCHANGED <<send_eventlist_buffer_size, polls, channel, channel_closed,
                   delivery, producer_pc, producer_future, awaited,
                   queue_at_close, sigint_sent, sigint_producer, main_result>>
    /\ UNCHANGED exceptMain

\* producer_task_handle.await completes and main returns Ok(()).
MainJoined ==
    /\ main_pc = "joining"
    /\ producer_pc = "done"
    /\ main_pc' = "exited"
    /\ main_result' = Some("Ok")
    /\ UNCHANGED <<send_eventlist_buffer_size, polls, channel, channel_closed,
                   delivery, producer_pc, producer_future, awaited,
                   queue_at_close, sigint_sent, sigint_main, sigint_producer>>
    /\ UNCHANGED exceptMain

\* produce_to_kafka, the branch message = channel_recv.recv() with
\* Some(future): the task goes on to await the future.
ProducerRecv ==
    /\ producer_pc = "select"
    /\ channel # << >>
    /\ producer_future' = Some(Head(channel))
    /\ channel' = Tail(channel)
    /\ producer_pc' = "awaiting"
    /\ UNCHANGED <<send_eventlist_buffer_size, polls, channel_closed, delivery,
                   awaited, queue_at_close, sigint_sent, sigint_main,
                   sigint_producer, main_pc, main_result>>
    /\ UNCHANGED exceptMain

\* produce_eventlist_to_kafka: the awaited future has resolved.
ProducerAwaited ==
    /\ producer_pc = "awaiting"
    /\ delivery[producer_future[1]] # "Pending"
    /\ awaited' = Append(awaited, producer_future[1])
    /\ producer_future' = None
    /\ producer_pc' = "select"
    /\ UNCHANGED <<send_eventlist_buffer_size, polls, channel, channel_closed,
                   delivery, queue_at_close, sigint_sent, sigint_main,
                   sigint_producer, main_pc, main_result>>
    /\ UNCHANGED exceptMain

\* produce_to_kafka, the branch message = channel_recv.recv() with None (the
\* channel is closed and empty): the task returns.
ProducerRecvNone ==
    /\ producer_pc = "select"
    /\ channel = << >>
    /\ channel_closed
    /\ producer_pc' = "done"
    /\ UNCHANGED <<send_eventlist_buffer_size, polls, channel, channel_closed,
                   delivery, producer_future, awaited, queue_at_close,
                   sigint_sent, sigint_main, sigint_producer, main_pc,
                   main_result>>
    /\ UNCHANGED exceptMain

\* produce_to_kafka, the branch sigint.recv(): close_and_flush_producer_channel
\* closes the channel.
ProducerSigint ==
    /\ producer_pc = "select"
    /\ sigint_producer
    /\ sigint_producer' = FALSE
    /\ channel_closed' = TRUE
    /\ queue_at_close' = IF queue_at_close = None
                         THEN Some(channel)
                         ELSE queue_at_close
    /\ producer_pc' = "flush_recv"
    /\ UNCHANGED <<send_eventlist_buffer_size, polls, channel, delivery,
                   producer_future, awaited, sigint_sent, sigint_main, main_pc,
                   main_result>>
    /\ UNCHANGED exceptMain

\* close_and_flush_producer_channel, channel_recv.recv().await?: the next
\* buffered future is taken, or the flush returns to produce_to_kafka's loop.
FlushRecv ==
    /\ producer_pc = "flush_recv"
    /\ IF channel # << >>
       THEN /\ producer_future' = Some(Head(channel))
            /\ channel' = Tail(channel)
            /\ producer_pc' = "flush_await"
       ELSE /\ producer_pc' = "select"
            /\ UNCHANGED <<producer_future, channel>>
    /\ UNCHANGED <<send_eventlist_buffer_size, polls, channel_closed, delivery,
                   awaited, queue_at_close, sigint_sent, sigint_main,
                   sigint_producer, main_pc, main_result>>
    /\ UNCHANGED exceptMain

\* flush_eventlist: the awaited future has resolved.
FlushAwaited ==
    /\ producer_pc = "flush_await"
    /\ delivery[producer_future[1]] # "Pending"
    /\ awaited' = Append(awaited, producer_future[1])
    /\ producer_future' = None
    /\ producer_pc' = "flush_recv"
    /\ UNCHANGED <<send_eventlist_buffer_size, polls, channel, channel_closed,
                   delivery, queue_at_close, sigint_sent, sigint_main,
                   sigint_producer, main_pc, main_result>>
    /\ UNCHANGED exceptMain

NextMain ==
    \/ Sigint
    \/ DeliveryResolves
    \/ MainMessage
    \/ MainKafkaError
    \/ MainSigint
    \/ MainJoined
    \/ ProducerRecv
    \/ ProducerAwaited
    \/ ProducerRecvNone
    \/ ProducerSigint
    \/ FlushRecv
    \/ FlushAwaited

SpecMain == InitMain /\ [][NextMain]_vars

(***************************************************************************)
(* find_advanced_events from the assembled pulses on: the two amplitude    *)
(* filters and the (time, voltage) vectors.  A Pulse is given by the       *)
(* fields the function reads, peak.value and steepest_rise.time, both      *)
(* optional, and by its place n in the order of assembly.                  *)
(***************************************************************************)
\* The peak values and amplitude bounds of the model.
Amplitudes == 0..3
\* Option<Real> over a set of values.
OptionOf(S) == {None} \cup { Some(x) : x \in S }

\* The first filter with the comparison the other way round.
filter_min_amplitude_inverted(pulses, min_amplitude) ==
    SelectSeq(pulses,
              LAMBDA pulse :
                  IF min_amplitude # None /\ pulse.peak.value # None
                  THEN min_amplitude[1] >= pulse.peak.value[1]
                  ELSE TRUE)

\* .filter(|pulse| Option::zip(parameters.min_amplitude, pulse.peak.value)
\*     .map(|(min, val)| min <= val).unwrap_or(true))
filter_min_amplitude(pulses, min_amplitude) ==
    SelectSeq(pulses,
              LAMBDA pulse :
                  IF min_amplitude # None /\ pulse.peak.value # None
                  THEN min_amplitude[1] <= pulse.peak.value[1]
                  ELSE TRUE)

\* .filter(|pulse| Option::zip(parameters.max_amplitude, pulse.peak.value)
\*     .map(|(max, val)| max >= val).unwrap_or(true))
filter_max_amplitude(pulses, max_amplitude) ==
    SelectSeq(pulses,
              LAMBDA pulse :
                  IF max_amplitude # None /\ pulse.peak.value # None
                  THEN max_amplitude[1] >= pulse.peak.value[1]
                  ELSE TRUE)

\* Option::unwrap_or_default on an Option<Real>.
unwrap_or_default(opt) == IF opt # None THEN opt[1] ELSE 0

\* find_advanced_events, from `let pulses = events.clone().assemble(...)` on:
\* assembled is what the assembler yields.
find_advanced_events(assembled, parameters_) ==
    LET pulses == filter_max_amplitude(
                      filter_min_amplitude(assembled, parameters_.min_amplitude),
                      parameters_.max_amplitude)
    IN  [ pulses |-> pulses,
          time |-> [ n \in 1..Len(pulses) |->
                       as_Time(unwrap_or_default(pulses[n].steepest_rise.time)) ],
          voltage |-> [ n \in 1..Len(pulses) |->
                          as_Intensity(unwrap_or_default(pulses[n].peak.value)) ] ]

InitAdvanced ==
    /\ NoPipeline
    /\ NoChannelCall
    /\ NoMain
    /\ NoAdvancedCall
    /\ NoTracesCall
    /\ NoListsCall
    /\ NoSimulation
    /\ NoNoise
    /\ NoDigitiserConfig
    /\ NoLookup
    /\ NoPulses
    /\ NoWindowIter

\* One call of find_advanced_events, on any pulses assembled and any bounds.
FindAdvancedEvents ==
    /\ advanced_call = None
    /\ \E k \in 0..MaxPulses :
       \E values \in [1..k -> OptionOf(Amplitudes)],
          timed \in [1..k -> BOOLEAN],
          min_amplitude \in OptionOf(Amplitudes),
          max_amplitude \in OptionOf(Amplitudes) :
         LET assembled == [ n \in 1..k |->
                 [ n |-> n,
                   peak |-> [ value |-> values[n] ],
                   steepest_rise |->
                       [ time |-> IF timed[n] THEN Some(n) ELSE None ] ] ]
             parameters_ == [ min_amplitude |-> min_amplitude,
                              max_amplitude |-> max_amplitude ]
         IN  /\ advanced_call' = Some([ assembled |-> assembled,
                                        parameters |-> parameters_ ])
             /\ advanced_result' =
                    Some(find_advanced_events(assembled, parameters_))
    /\ UNCHANGED exceptAdvanced

NextAdvanced == FindAdvancedEvents

SpecAdvanced == InitAdvanced /\ [][NextAdvanced]_vars

(***************************************************************************)
(* Simulation::generate_traces.  The event lists are mapped to traces on   *)
(* rayon's worker pool, one task per event list, and the Results are       *)
(* collected into a Vec in the order of the event lists, then into one     *)
(* Result.  An event list is given by its place n in the slice, by the     *)
(* height its pulses add to every sample, and by whether evaluating its    *)
(* expressions fails.                                                      *)
(***************************************************************************)
\* Result<T, E>.
Ok(x) == [ ok |-> TRUE, value |-> x ]
Err(e) == [ ok |-> FALSE, error |-> e ]

\* The heights of the model.
Heights == {0, 1}
\* The frame numbers of the model.
FrameNumbers == {0, 1}

\* Trace::new: a trace of time_bins samples, zero but for what the pulses of
\* the event list add, or the JsonValueError of an expression that cannot be
\* evaluated.
Trace_new(simulation, frame_number, event_list) ==
    IF event_list.fails
    THEN Err([ JsonValueError |-> event_list.n ])
    ELSE Ok([ event_list |-> event_list.n,
              frame_number |-> frame_number,
              samples |-> [ t \in 1..simulation.time_bins |->
                              0 + event_list.height ] ])

\* The Results in the order the tasks completed.
par_collect_as_completed(slots, order) ==
    [ k \in 1..Len(order) |-> slots[order[k]][1] ]

\* .into_par_iter().map(..).collect::<Vec<Result<_, JsonValueError>>>():
\* rayon's indexed collect writes the Result of the i-th item to the i-th
\* place of the Vec, whenever its task ran.
par_collect(slots, order) ==
    [ i \in 1..Len(slots) |-> slots[i][1] ]

\* A collect that leaves the failed items out.
collect_Result_skip_errors(results) ==
    LET kept == SelectSeq(results, LAMBDA r : r.ok)
    IN  Ok([ i \in DOMAIN kept |-> kept[i].value ])

\* .into_iter().collect::<Result<Vec<Trace>, JsonValueError>>(): the values in
\* order, or the first error in order.
collect_Result(results) ==
    IF \E i \in DOMAIN results : ~results[i].ok
    THEN LET first == CHOOSE i \in DOMAIN results :
                          /\ ~results[i].ok
                          /\ \A j \in 1..(i - 1) : results[j].ok
         IN  Err(results[first].error)
    ELSE Ok([ i \in DOMAIN results |-> results[i].value ])

InitTraces ==
    /\ NoPipeline
    /\ NoChannelCall
    /\ NoMain
    /\ NoAdvancedCall
    /\ NoTracesCall
    /\ NoListsCall
    /\ NoSimulation
    /\ NoNoise
    /\ NoDigitiserConfig
    /\ NoLookup
    /\ NoPulses
    /\ NoWindowIter

\* generate_traces is called: one task per event list is handed to the pool.
GenerateTraces ==
    /\ traces_call = None
    /\ \E k \in 0..MaxEventLists, time_bins \in 0..MaxTimeBins,
          frame_number \in FrameNumbers :
       \E heights \in [1..k -> Heights], failing \in [1..k -> BOOLEAN] :
         /\ traces_call' = Some(
                [ simulation |-> [ time_bins |-> time_bins ],
                  frame_number |-> frame_number,
                  event_lists |-> [ n \in 1..k |->
                      [ n |-> n, height |-> heights[n],
                        fails |-> failing[n] ] ] ])
         /\ traces_slots' = [ n \in 1..k |-> None ]
    /\ UNCHANGED <<traces_order, traces_result>>
    /\ UNCHANGED exceptTraces

\* The task of one event list runs, on whichever worker and in whatever order
\* the pool takes it.
TraceTask ==
    /\ traces_call # None
    /\ \E i \in DOMAIN traces_slots :
         /\ traces_slots[i] = None
         /\ traces_slots' =
                [traces_slots EXCEPT ![i] =
                    Some(Trace_new(traces_call[1].simulation,
                                   traces_call[1].frame_number,
                                   traces_call[1].event_lists[i]))]
         /\ traces_order' = Append(traces_order, i)
    /\ UNCHANGED <<traces_call, traces_result>>
    /\ UNCHANGED exceptTraces

\* All tasks have run: the two collects, and generate_traces returns.
TracesCollected ==
    /\ traces_call # None
    /\ traces_result = None
    /\ \A i \in DOMAIN traces_slots : traces_slots[i] # None
    /\ traces_result' =
           Some(collect_Result(par_collect(traces_slots, traces_order)))
    /\ UNCHANGED <<traces_call, traces_slots, traces_order>>
    /\ UNCHANGED exceptTraces

NextTraces == GenerateTraces \/ TraceTask \/ TracesCollected

SpecTraces == InitTraces /\ [][NextTraces]_vars

(***************************************************************************)
(* Simulation::generate_event_lists.  The template is looked up first; the *)
(* repetitions are then sampled on rayon's worker pool, one task each, and *)
(* collected as in generate_traces.  What a task samples is drawn when it  *)
(* runs: the number of pulses of its event list, or a failure.             *)
(***************************************************************************)
\* Vec::get: the element at a zero-based index, if there is one.
get(vec, i) ==
    IF i < Len(vec) THEN Some(vec[i + 1]) ELSE None

\* What sampling one event list can draw.
Draws == [ fails : BOOLEAN, num_pulses : {0, 1} ]

\* EventList::new: an event list sampled from the template, or the error of a
\* pulse or expression that could not be sampled.
EventList_new(simulation, frame_number, source, task, draw) ==
    IF draw.fails
    THEN Err([ SimulationError |-> task ])
    ELSE Ok([ task |-> task,
              source |-> source,
              frame_number |-> frame_number,
              num_pulses |-> draw.num_pulses ])

InitLists ==
    /\ NoPipeline
    /\ NoChannelCall
    /\ NoMain
    /\ NoAdvancedCall
    /\ NoTracesCall
    /\ NoListsCall
    /\ NoSimulation
    /\ NoNoise
    /\ NoDigitiserConfig
    /\ NoLookup
    /\ NoPulses
    /\ NoWindowIter

\* generate_event_lists is called: the template is looked up, and the call
\* returns at once if there is none, else hands one task per repetition to the
\* pool.
GenerateEventLists ==
    /\ lists_call = None
    /\ \E templates \in 0..MaxTemplates, index_ \in 0..MaxTemplates,
          frame_number \in FrameNumbers, repeat \in 0..MaxRepeat :
         LET event_lists == [ n \in 1..templates |-> [ template |-> n ] ]
             source == get(event_lists, index_)
         IN  /\ lists_call' = Some([ simulation |-> [ event_lists |-> event_lists ],
                                     index |-> index_,
                                     frame_number |-> frame_number,
                                     repeat |-> repeat ])
             /\ IF source = None
                THEN /\ lists_result' = Some(Err(
                            [ EventListIndexOutOfRange |->
                                  <<index_, Len(event_lists)>> ]))
                     /\ lists_slots' = << >>
                ELSE /\ lists_result' = None
                     /\ lists_slots' = [ n \in 1..repeat |-> None ]
    /\ UNCHANGED lists_order
    /\ UNCHANGED exceptLists

\* The task of one repetition runs, on whichever worker and in whatever order
\* the pool takes it.
EventListTask ==
    /\ lists_call # None
    /\ lists_result = None
    /\ \E i \in DOMAIN lists_slots, draw \in Draws :
         /\ lists_slots[i] = None
         /\ lists_slots' =
                [lists_slots EXCEPT ![i] =
                    Some(EventList_new(
                             lists_call[1].simulation,
                             lists_call[1].frame_number,
                             get(lists_call[1].simulation.event_lists,
                                 lists_call[1].index)[1],
                             i, draw))]
         /\ lists_order' = Append(lists_order, i)
    /\ UNCHANGED <<lists_call, lists_result>>
    /\ UNCHANGED exceptLists

\* All tasks have run: the two collects, and generate_event_lists returns.
EventListsCollected ==
    /\ lists_call # None
    /\ lists_result = None
    /\ \A i \in DOMAIN lists_slots : lists_slots[i] # None
    /\ lists_result' =
           Some(collect_Result(par_collect(lists_slots, lists_order)))
    /\ UNCHANGED <<lists_call, lists_slots, lists_order>>
    /\ UNCHANGED exceptLists

NextLists == GenerateEventLists \/ EventListTask \/ EventListsCollected

SpecLists == InitLists /\ [][NextLists]_vars

(***************************************************************************)
(* Loading a Simulation and Simulation::get_random_pulse_template.  The    *)
(* struct derives Deserialize: a configuration that is well-formed JSON of *)
(* the right shape is accepted with the values it holds, pulse-index being *)
(* any usize.  Of the configuration the model keeps the number of pulse    *)
(* templates and, per event-list template, the pulse-index of each entry.  *)
(***************************************************************************)
\* The event-list templates a configuration file can hold: one to
\* MaxPulseTemplates entries, each with a pulse-index.
EventListTemplates ==
    UNION { [1..k -> [ pulse_index : 0..MaxPulseIndex ]] :
                k \in 1..MaxPulseTemplates }

\* #[derive(Deserialize)] on Simulation: Ok with the fields as read, or the
\* error of serde for a text that is not a configuration.
Simulation_deserialize(well_formed, pulses, event_lists) ==
    IF well_formed
    THEN Ok([ pulses |-> pulses, event_lists |-> event_lists ])
    ELSE Err("serde_json::Error")

\* Simulation::get_random_pulse_template, with the index drawn from distr.
get_random_pulse_template(simulation, source, drawn) ==
    LET event_pulse_template == get(source.pulses, drawn)
    IN  IF event_pulse_template = None
        THEN Err([ EventPulseTemplateIndexOutOfRange |->
                       <<drawn, Len(source.pulses)>> ])
        ELSE LET pulse == get(simulation.pulses,
                              event_pulse_template[1].pulse_index)
             IN  IF pulse = None
                 THEN Err([ EventPulseTemplateIndexOutOfRange |->
                                <<drawn, Len(source.pulses)>> ])
                 ELSE Ok(pulse[1])

InitLoad ==
    /\ NoPipeline
    /\ NoChannelCall
    /\ NoMain
    /\ NoAdvancedCall
    /\ NoTracesCall
    /\ NoListsCall
    /\ NoSimulation
    /\ NoNoise
    /\ NoDigitiserConfig
    /\ NoLookup
    /\ NoPulses
    /\ NoWindowIter

\* A configuration is read.
LoadSimulation ==
    /\ loaded = None
    /\ \E well_formed \in BOOLEAN, p \in 0..MaxPulseTemplates,
          e \in 1..MaxTemplates :
       \E templates \in [1..e -> EventListTemplates] :
         loaded' = Some(Simulation_deserialize(
                       well_formed,
                       [ n \in 1..p |-> [ template |-> n ] ],
                       [ n \in 1..e |-> [ pulses |-> templates[n] ] ]))
    /\ UNCHANGED <<template_call, template_result>>
    /\ UNCHANGED exceptLoad

\* get_random_pulse_template is called on the loaded simulation for one of its
\* event-list templates; distr is the WeightedIndex over the weights of that
\* template's entries, so it draws the index of one of them.
GetRandomPulseTemplate ==
    /\ loaded # None
    /\ loaded[1].ok
    /\ template_call = None
    /\ \E e \in DOMAIN loaded[1].value.event_lists :
         LET source == loaded[1].value.event_lists[e]
         IN  \E drawn \in 0..(Len(source.pulses) - 1) :
               /\ template_call' = Some([ source |-> source, index |-> drawn ])
               /\ template_result' = Some(
                      get_random_pulse_template(loaded[1].value, source, drawn))
    /\ UNCHANGED loaded
    /\ UNCHANGED exceptLoad

NextLoad == LoadSimulation \/ GetRandomPulseTemplate

SpecLoad == InitLoad /\ [][NextLoad]_vars

(***************************************************************************)
(* Numeric expressions of the simulation configuration (utils.rs).  The    *)
(* environment maps the names of the variables that are set to their      *)
(* texts.  f64 values are exact; a quotient is kept as a pair.             *)
(***************************************************************************)
\* The variants of NumExpression<T> and NumConstant<T>.
Const(v) == [ kind |-> "Const", v |-> v ]
FromEnvVar(environment_variable) ==
    [ kind |-> "FromEnvVar", environment_variable |-> environment_variable ]
NumFunc(scale, translate) ==
    [ kind |-> "NumFunc", scale |-> scale, translate |-> translate ]

\* env::var: the text of the variable, or VarError::NotPresent.
env_var(env, name) ==
    IF name \in DOMAIN env THEN Ok(env[name]) ELSE Err("VarError::NotPresent")

\* The texts of the model that are decimal numerals, and their numbers.
Numerals == ("0" :> 0) @@ ("1" :> 1) @@ ("2" :> 2) @@ ("-1" :> -1)

\* str::parse::<f64> and str::parse::<usize>.
parse_f64(text) ==
    IF text \in DOMAIN Numerals
    THEN Ok(Numerals[text])
    ELSE Err("ParseFloatError")
parse_usize(text) ==
    IF text \in DOMAIN Numerals /\ Numerals[text] >= 0
    THEN Ok(Numerals[text])
    ELSE Err("ParseIntError")

\* str::parse::<T>, T being usize or f64.
parse(T, text) == IF T = "usize" THEN parse_usize(text) ELSE parse_f64(text)

\* `?` and #[from]: the error converted to a JsonNumError.
JsonNumError(e) ==
    CASE e = "VarError::NotPresent" -> [ JsonNumError |-> "EnvVar" ]
      [] e = "ParseFloatError" -> [ JsonNumError |-> "FloatFromStr" ]
      [] e = "ParseIntError" -> [ JsonNumError |-> "IntFromStr" ]

\* Transformation::transform.
transform(frame_function, x) ==
    x * frame_function.scale + frame_function.translate

\* env::var(environment_variable)?.parse()?
env_var_parse(env, environment_variable, T) ==
    LET text == env_var(env, environment_variable)
    IN  IF ~text.ok THEN Err(JsonNumError(text.error))
        ELSE LET parsed == parse(T, text.value)
             IN  IF ~parsed.ok THEN Err(JsonNumError(parsed.error))
                 ELSE Ok(parsed.value)

\* NumExpression::value.
NumExpression_value(expr, frame_index, env, T) ==
    CASE expr.kind = "Const" -> Ok(expr.v)
      [] expr.kind = "FromEnvVar" ->
             env_var_parse(env, expr.environment_variable, T)
      [] expr.kind = "NumFunc" -> Ok(transform(expr, frame_index))

\* NumConstant::value.
NumConstant_value(const, env, T) ==
    CASE const.kind = "Const" -> Ok(const.v)
      [] const.kind = "FromEnvVar" ->
             env_var_parse(env, const.environment_variable, T)

\* The sum of a sequence of numbers.
RECURSIVE Sum(_)
Sum(seq) == IF seq = << >> THEN 0 ELSE Head(seq) + Sum(Tail(seq))

\* The quotient n / d of two f64, kept exact.
Quotient(n, d) == [ num |-> n, den |-> d ]

(***************************************************************************)
(* NoiseSource and Noise (noise.rs).  The environment is read at each call *)
(* and is whatever it is then; rand::random is 0 or 1/2.                   *)
(***************************************************************************)
\* Interval<NumExpression<Time>>::is_in: whether time lies in the closed
\* interval of the values of min and max at the frame.
Interval_is_in(bounds, time, frame_index, env) ==
    LET min == NumExpression_value(bounds.min, frame_index, env, "usize")
        max == NumExpression_value(bounds.max, frame_index, env, "usize")
    IN  IF ~min.ok THEN min
        ELSE IF ~max.ok THEN max
        ELSE Ok(min.value <= time /\ time <= max.value)

\* NoiseSource::sample for the Uniform attributes; twice_random is twice the
\* number rand::random drew.
NoiseSource_sample(source, time, frame_index, env, twice_random) ==
    LET is_in == Interval_is_in(source.bounds, time, frame_index, env)
        max == NumExpression_value(source.attributes.max, frame_index, env,
                                   "f64")
        min == NumExpression_value(source.attributes.min, frame_index, env,
                                   "f64")
    IN  IF ~is_in.ok THEN is_in
        ELSE IF is_in.value
        THEN IF ~max.ok THEN max
             ELSE IF ~min.ok THEN min
             ELSE Ok(((max.value - min.value) * twice_random) \div 2
                     + min.value)
        ELSE Ok(0)

\* An eviction at the wrong end of the buffer.
pop_back_if_full(buffer, window_len) ==
    IF Len(buffer) = window_len /\ buffer # << >>
    THEN SubSeq(buffer, 1, Len(buffer) - 1)
    ELSE buffer

\* if self.prev.len() == window_len { self.prev.pop_front(); }
pop_front_if_full(buffer, window_len) ==
    IF Len(buffer) = window_len /\ buffer # << >>
    THEN Tail(buffer)
    ELSE buffer

\* Noise::noisify: what it returns and the buffer it leaves.
noisify(source, buffer, value, time, frame_index, env, twice_random) ==
    LET window_len == NumExpression_value(source.smoothing_window_length,
                                          frame_index, env, "usize")
        popped == pop_front_if_full(buffer, window_len.value)
        sample == NoiseSource_sample(source, time, frame_index, env,
                                     twice_random)
        pushed == Append(popped, sample.value)
    IN  IF ~window_len.ok
        THEN [ window_len |-> window_len, sample |-> None,
               result |-> window_len, prev |-> buffer ]
        ELSE IF ~sample.ok
        THEN [ window_len |-> window_len, sample |-> Some(sample),
               result |-> sample, prev |-> popped ]
        ELSE [ window_len |-> window_len, sample |-> Some(sample),
               result |-> Ok(Quotient(value * Len(pushed) + Sum(pushed),
                                      Len(pushed))),
               prev |-> pushed ]

\* The smoothing-window-length expressions of the model.
WindowLengths ==
    { Const(c) : c \in 0..MaxWindow }
        \cup { NumFunc(1, 0), FromEnvVar("WINDOW") }
\* The attributes of the model: uniform noise with constant limits, or with a
\* lower limit read from the environment.
NoiseAttributes ==
    { [ min |-> Const(1), max |-> Const(3) ],
      [ min |-> FromEnvVar("NOISE_MIN"), max |-> Const(3) ] }
\* The environments of the model.
Environments ==
    { [ n \in {} |-> "" ],
      [ n \in {"WINDOW"} |-> "abc" ],
      [ n \in {"WINDOW"} |-> "2" ],
      [ n \in {"WINDOW", "NOISE_MIN"} |-> "1" ] }
\* The times, of which 2 lies outside the bounds of the source.
NoiseTimes == {0, 2}

InitNoise ==
    /\ NoPipeline
    /\ NoChannelCall
    /\ NoMain
    /\ NoAdvancedCall
    /\ NoTracesCall
    /\ NoListsCall
    /\ NoSimulation
    /\ NoNoise
    /\ NoDigitiserConfig
    /\ NoLookup
    /\ NoPulses
    /\ NoWindowIter

\* Noise::new.
NoiseNew ==
    /\ noise_source = None
    /\ \E window_length \in WindowLengths, attributes \in NoiseAttributes :
         noise_source' = Some([ bounds |-> [ min |-> Const(0), max |-> Const(1) ],
                                attributes |-> attributes,
                                smoothing_window_length |-> window_length ])
    /\ noise_prev' = << >>
    /\ UNCHANGED noise_log
    /\ UNCHANGED exceptNoise

\* One call of noisify.
Noisify ==
    /\ noise_source # None
    /\ Len(noise_log) < MaxNoisify
    /\ \E value \in {0, 1}, time \in NoiseTimes, frame_index \in {0, 1, 2},
          env \in Environments, twice_random \in {0, 1} :
         LET call == noisify(noise_source[1], noise_prev, value, time, frame_index,
                             env, twice_random)
         IN  /\ noise_prev' = call.prev
             /\ noise_log' = Append(noise_log,
                    [ value |-> value,
                      window_len |-> call.window_len,
                      sample |-> call.sample,
                      before |-> noise_prev,
                      result |-> call.result ])
    /\ UNCHANGED noise_source
    /\ UNCHANGED exceptNoise

NextNoise == NoiseNew \/ Noisify

SpecNoise == InitNoise /\ [][NextNoise]_vars

(***************************************************************************)
(* DigitiserConfig (digitiser_config.rs), every variant of it.  Channel    *)
(* is u32 and DigitizerId is u8; the counts are usize and their products   *)
(* stay far below its range.  A Vec is a sequence, its first element at 1. *)
(***************************************************************************)
\* `x as Channel` on a usize keeps the low 32 bits, which is all of the
\* numbers of channels of the model.
as_Channel(x) == x

\* `d as DigitizerId` on a usize keeps the low 8 bits.
as_DigitizerId(d) == d % 256

\* The Vec collected from the range start..end.
range_collect(start, end) ==
    [ i \in 1..(IF end > start THEN end - start ELSE 0) |-> start + i - 1 ]

\* Interval::range_inclusive, collected: min..=max.
range_inclusive(interval) == range_collect(interval.min, interval.max + 1)

\* digitisers.iter().flat_map(|digitiser| digitiser.channels.range_inclusive())
RECURSIVE flat_map_range_inclusive(_)
flat_map_range_inclusive(digitisers) ==
    IF digitisers = << >>
    THEN << >>
    ELSE range_inclusive(Head(digitisers).channels)
             \o flat_map_range_inclusive(Tail(digitisers))

\* DigitiserConfig::generate_channels.
generate_channels(config, env) ==
    CASE config.kind = "ManualAggregatedFrame" -> Ok(config.channels)
      [] config.kind = "ManualDigitisers" ->
             Ok(flat_map_range_inclusive(config.digitisers))
      [] config.kind = "AutoAggregatedFrame" ->
             LET num_channels ==
                     NumConstant_value(config.num_channels, env, "usize")
             IN  IF ~num_channels.ok THEN num_channels
                 ELSE Ok(range_collect(0, as_Channel(num_channels.value)))
      [] config.kind = "AutoDigitisers" ->
             LET num_digitisers ==
                     NumConstant_value(config.num_digitisers, env, "usize")
                 num_channels_per_digitiser ==
                     NumConstant_value(config.num_channels_per_digitiser, env,
                                       "usize")
             IN  IF ~num_digitisers.ok THEN num_digitisers
                 ELSE IF ~num_channels_per_digitiser.ok
                 THEN num_channels_per_digitiser
                 ELSE Ok(range_collect(0,
                         as_Channel(num_digitisers.value
                                        * num_channels_per_digitiser.value)))

\* DigitiserConfig::generate_digitisers.
generate_digitisers(config, env) ==
    CASE config.kind = "AutoAggregatedFrame" -> Ok(<< >>)
      [] config.kind = "ManualAggregatedFrame" -> Ok(<< >>)
      [] config.kind = "ManualDigitisers" ->
             Ok([ n \in 1..Len(config.digitisers) |->
                   [ id |-> config.digitisers[n].id,
                     channel_indices |-> << >> ] ])
      [] config.kind = "AutoDigitisers" ->
             LET num_digitisers ==
                     NumConstant_value(config.num_digitisers, env, "usize")
                 num_channels_per_digitiser ==
                     NumConstant_value(config.num_channels_per_digitiser, env,
                                       "usize")
             IN  IF ~num_digitisers.ok THEN num_digitisers
                 ELSE IF num_digitisers.value > 0
                         /\ ~num_channels_per_digitiser.ok
                 THEN num_channels_per_digitiser
                 ELSE Ok([ n \in 1..num_digitisers.value |->
                           LET d == n - 1
                           IN  [ id |-> as_DigitizerId(d),
                                 channel_indices |->
                                     range_collect(
                                         d * num_channels_per_digitiser.value,
                                         (d + 1)
                                           * num_channels_per_digitiser.value) ] ])

\* The numbers of digitisers of the model: the small ones, and those at the
\* end of the range of DigitizerId.
DigitiserCounts ==
    { Const(n) : n \in (0..MaxDigitisers) \cup {256, 257} }
        \cup { FromEnvVar("NUM_DIGITISERS") }
\* The digitisers of a manual configuration.
Digitisers ==
    [ id : {0, 1},
      channels : [ min : 0..MaxChannel, max : 0..MaxChannel ] ]
\* The configurations of the model.
DigitiserConfigs ==
    [ kind : {"AutoDigitisers"},
      num_digitisers : DigitiserCounts,
      num_channels_per_digitiser :
          { Const(m) : m \in 0..MaxChannelsPerDigitiser } ]
    \cup [ kind : {"AutoAggregatedFrame"},
           num_channels : { Const(m) : m \in 0..MaxChannelsPerDigitiser } ]
    \cup [ kind : {"ManualAggregatedFrame"},
           channels : SeqsUpTo(0..MaxChannel, MaxManualDigitisers) ]
    \cup [ kind : {"ManualDigitisers"},
           digitisers : SeqsUpTo(Digitisers, MaxManualDigitisers) ]
\* The environments of the model.
DigitiserEnvironments ==
    { [ n \in {} |-> "" ],
      [ n \in {"NUM_DIGITISERS"} |-> "-1" ],
      [ n \in {"NUM_DIGITISERS"} |-> "2" ] }

InitDigitisers ==
    /\ NoPipeline
    /\ NoChannelCall
    /\ NoMain
    /\ NoAdvancedCall
    /\ NoTracesCall
    /\ NoListsCall
    /\ NoSimulation
    /\ NoNoise
    /\ NoDigitiserConfig
    /\ NoLookup
    /\ NoPulses
    /\ NoWindowIter

\* A digitiser configuration is read.
ReadDigitiserConfig ==
    /\ digitiser_config = None
    /\ \E config \in DigitiserConfigs, env \in DigitiserEnvironments :
         digitiser_config' = Some([ config |-> config, env |-> env ])
    /\ UNCHANGED <<generated_channels, generated_digitisers>>
    /\ UNCHANGED exceptDigitisers

\* generate_channels is called.
GenerateChannels ==
    /\ digitiser_config # None
    /\ generated_channels = None
    /\ generated_channels' = Some(generate_channels(digitiser_config[1].config,
                                                    digitiser_config[1].env))
    /\ UNCHANGED <<digitiser_config, generated_digitisers>>
    /\ UNCHANGED exceptDigitisers

\* generate_digitisers is called.
GenerateDigitisers ==
    /\ digitiser_config # None
    /\ generated_digitisers = None
    /\ generated_digitisers' =
           Some(generate_digitisers(digitiser_config[1].config,
                                    digitiser_config[1].env))
    /\ UNCHANGED <<digitiser_config, generated_channels>>
    /\ UNCHANGED exceptDigitisers

NextDigitisers == ReadDigitiserConfig \/ GenerateChannels \/ GenerateDigitisers

SpecDigitisers == InitDigitisers /\ [][NextDigitisers]_vars

(***************************************************************************)
(* The lookups of the simulation configuration (utils.rs):                 *)
(* NumConstant::value, NumExpression::value and TextConstant::value, each  *)
(* on a literal or on the name of an environment variable.                 *)
(***************************************************************************)
\* The variants of TextConstant.
Text(v) == [ kind |-> "Text", v |-> v ]
TextEnv(environment_variable) ==
    [ kind |-> "TextEnv", environment_variable |-> environment_variable ]

\* A String returned.
String(v) == [ String |-> v ]

\* Result::unwrap on the Result of env::var.
unwrap(result) == IF result.ok THEN String(result.value) ELSE Panicked

\* TextConstant::value: a String, not a Result.
TextConstant_value(const, env) ==
    CASE const.kind = "Text" -> String(const.v)
      [] const.kind = "TextEnv" ->
             unwrap(env_var(env, const.environment_variable))

\* The constants, expressions and texts of the model.
NumConstants == { Const(c) : c \in 0..MaxConst } \cup { FromEnvVar("VALUE") }
NumExpressions == NumConstants \cup { NumFunc(1, 0), NumFunc(2, 1) }
TextConstants == { Text("MuSR"), Text(""), TextEnv("VALUE") }
\* The environments of the model: VALUE unset, or set to a text.
LookupEnvironments ==
    { [ n \in {} |-> "" ] }
        \cup { [ n \in {"VALUE"} |-> text ] : text \in {"abc", "-1", "2", ""} }

InitLookup ==
    /\ NoPipeline
    /\ NoChannelCall
    /\ NoMain
    /\ NoAdvancedCall
    /\ NoTracesCall
    /\ NoListsCall
    /\ NoSimulation
    /\ NoNoise
    /\ NoDigitiserConfig
    /\ NoLookup
    /\ NoPulses
    /\ NoWindowIter

\* NumConstant::value is called, for a usize or for an f64.
NumConstantValue ==
    /\ lookup_call = None
    /\ \E const \in NumConstants, env \in LookupEnvironments,
          T \in {"usize", "f64"} :
         /\ lookup_call' = Some([ of |-> "NumConstant", T |-> T,
                                  on |-> const, env |-> env ])
         /\ lookup_result' = Some(NumConstant_value(const, env, T))
    /\ UNCHANGED exceptLookup

\* NumExpression::value is called, for a usize or for an f64.
NumExpressionValue ==
    /\ lookup_call = None
    /\ \E expr \in NumExpressions, env \in LookupEnvironments,
          frame_index \in 0..MaxFrameIndex, T \in {"usize", "f64"} :
         /\ lookup_call' = Some([ of |-> "NumExpression", T |-> T,
                                  on |-> expr, env |-> env,
                                  frame_index |-> frame_index ])
         /\ lookup_result' =
                Some(NumExpression_value(expr, frame_index, env, T))
    /\ UNCHANGED exceptLookup

\* TextConstant::value is called.
TextConstantValue ==
    /\ lookup_call = None
    /\ \E const \in TextConstants, env \in LookupEnvironments :
         /\ lookup_call' = Some([ of |-> "TextConstant",
                                  on |-> const, env |-> env ])
         /\ lookup_result' = Some(TextConstant_value(const, env))
    /\ UNCHANGED exceptLookup

NextLookup == NumConstantValue \/ NumExpressionValue \/ TextConstantValue

SpecLookup == InitLookup /\ [][NextLookup]_vars

(***************************************************************************)
(* FloatRandomDistribution::sample (utils.rs) and PulseEvent (pulses.rs).  *)
(* Every random distribution seeds a new StdRng with the sub-second        *)
(* nanoseconds the clock reads at that moment; `now` stands for that       *)
(* reading.  The values of ln, sqrt, exp and erfc are kept as terms, so    *)
(* that equal arguments give equal values and nothing else is known of     *)
(* them.                                                                   *)
(***************************************************************************)
\* The variants of FloatRandomDistribution<f64>.
ConstantFloat(value) == [ kind |-> "ConstantFloat", value |-> value ]
UniformFloat(min, max) == [ kind |-> "UniformFloat", min |-> min, max |-> max ]
Normal(mean, sd) == [ kind |-> "Normal", mean |-> mean, sd |-> sd ]
Exponential(lifetime) == [ kind |-> "Exponential", lifetime |-> lifetime ]

\* The number a StdRng draws first is a function of its seed alone; the model
\* takes the seed itself.
StdRng_seed_from_u64(seed) == seed

\* FloatRandomDistribution::sample.
FloatRandomDistribution_sample(dist, frame_index, env, now) ==
    LET drawn == StdRng_seed_from_u64(now)
    IN  CASE dist.kind = "ConstantFloat" ->
                 NumExpression_value(dist.value, frame_index, env, "f64")
          [] dist.kind = "UniformFloat" ->
                 LET min == NumExpression_value(dist.min, frame_index, env,
                                                "f64")
                     max == NumExpression_value(dist.max, frame_index, env,
                                                "f64")
                 IN  IF ~min.ok THEN min
                     ELSE IF ~max.ok THEN max
                     ELSE IF min.value >= max.value THEN Panicked
                     ELSE Ok(min.value + (drawn % (max.value - min.value)))
          [] dist.kind = "Normal" ->
                 LET mean == NumExpression_value(dist.mean, frame_index, env,
                                                 "f64")
                     sd == NumExpression_value(dist.sd, frame_index, env,
                                               "f64")
                 IN  IF ~mean.ok THEN mean
                     ELSE IF ~sd.ok THEN sd
                     ELSE Ok(mean.value + sd.value * drawn)
          [] dist.kind = "Exponential" ->
                 LET lifetime == NumExpression_value(dist.lifetime, frame_index,
                                                     env, "f64")
                 IN  IF ~lifetime.ok THEN lifetime
                     ELSE Ok(lifetime.value * drawn)

\* The value of an expression of ln, sqrt, exp, erfc and powi.
Term(expression, arguments) ==
    [ expression |-> expression, arguments |-> arguments ]

\* The first of the Results that is not Ok, if there is one.
FirstError(results) ==
    IF \E k \in DOMAIN results : results[k] = Panicked \/ ~results[k].ok
    THEN Some(results[CHOOSE k \in DOMAIN results :
                  /\ results[k] = Panicked \/ ~results[k].ok
                  /\ \A j \in 1..(k - 1) :
                         results[j] # Panicked /\ results[j].ok])
    ELSE None

\* PulseEvent::sample; nows[k] is what the clock reads when the k-th
\* distribution is sampled.
PulseEvent_sample(template, frame, env, nows) ==
    CASE template.kind = "Flat" ->
             LET start == FloatRandomDistribution_sample(
                              template.start, frame, env, nows[1])
                 width == FloatRandomDistribution_sample(
                              template.width, frame, env, nows[2])
                 height == FloatRandomDistribution_sample(
                               template.height, frame, env, nows[3])
                 error == FirstError(<<start, width, height>>)
             IN  IF error # None THEN error[1]
                 ELSE Ok([ kind |-> "Flat",
                           start |-> start.value,
                           stop |-> start.value + width.value,
                           amplitude |-> height.value ])
      [] template.kind = "Triangular" ->
             LET start == FloatRandomDistribution_sample(
                              template.start, frame, env, nows[1])
                 width == FloatRandomDistribution_sample(
                              template.width, frame, env, nows[2])
                 peak_time == FloatRandomDistribution_sample(
                                  template.peak_time, frame, env, nows[3])
                 height == FloatRandomDistribution_sample(
                               template.height, frame, env, nows[4])
                 error == FirstError(<<start, width, peak_time, height>>)
             IN  IF error # None THEN error[1]
                 ELSE Ok([ kind |-> "Triangular",
                           start |-> start.value,
                           peak_time |-> start.value
                                           + peak_time.value * width.value,
                           stop |-> start.value + width.value,
                           amplitude |-> height.value ])
      [] template.kind = "Gaussian" ->
             LET mean == FloatRandomDistribution_sample(
                             template.peak_time, frame, env, nows[1])
                 sd == FloatRandomDistribution_sample(
                           template.sd, frame, env, nows[2])
                 peak_amplitude == FloatRandomDistribution_sample(
                                       template.height, frame, env, nows[3])
                 error == FirstError(<<mean, sd, peak_amplitude>>)
             IN  IF error # None THEN error[1]
                 ELSE Ok([ kind |-> "Gaussian",
                           start |-> Term("mean - 2 sd sqrt(ln(peak_amplitude))",
                                          <<mean.value, sd.value,
                                            peak_amplitude.value>>),
                           stop |-> Term("mean + 2 sd sqrt(ln(peak_amplitude))",
                                         <<mean.value, sd.value,
                                           peak_amplitude.value>>),
                           mean |-> mean.value,
                           sd |-> sd.value,
                           peak_amplitude |-> peak_amplitude.value ])
      [] template.kind = "BackToBackExp" ->
             LET rising == FloatRandomDistribution_sample(
                               template.rising, frame, env, nows[1])
                 falling == FloatRandomDistribution_sample(
                                template.falling, frame, env, nows[2])
                 peak_height == FloatRandomDistribution_sample(
                                    template.peak_height, frame, env, nows[3])
                 spread == FloatRandomDistribution_sample(
                               template.spread, frame, env, nows[4])
                 peak_time == FloatRandomDistribution_sample(
                                  template.peak_time, frame, env, nows[5])
                 error == FirstError(<<rising, falling, peak_height, spread,
                                       peak_time>>)
                 sampled == <<rising.value, falling.value, peak_height.value,
                              spread.value, peak_time.value>>
             IN  IF error # None THEN error[1]
                 ELSE Ok([ kind |-> "BackToBackExp",
                           start |-> Term("start", sampled),
                           stop |-> Term("stop", sampled),
                           peak_time |-> peak_time.value,
                           falling |-> falling.value,
                           rising |-> rising.value,
                           normalising_factor |->
                               Term("normalising_factor", sampled),
                           rising_spread |->
                               rising.value * spread.value * spread.value,
                           falling_spread |->
                               falling.value * spread.value * spread.value,
                           frac_1_sqrt_2_spread |->
                               Term("FRAC_1_SQRT_2 / spread",
                                    <<spread.value>>) ])

\* PulseEvent::get_start and PulseEvent::get_end, of a flat or triangular
\* pulse.
get_start(event) == as_Time(event.start)
get_end(event) == as_Time(event.stop)

\* PulseEvent::get_value_at, of a flat or triangular pulse.
get_value_at(event, time) ==
    IF get_start(event) > as_Time(time) \/ as_Time(time) > get_end(event)
    THEN 0
    ELSE CASE event.kind = "Flat" -> event.amplitude
           [] event.kind = "Triangular" ->
                  IF time < event.peak_time
                  THEN Quotient(event.amplitude * (time - event.start),
                                event.peak_time - event.start)
                  ELSE Quotient(event.amplitude * (event.stop - time),
                                event.stop - event.peak_time)

\* The distributions of the model, one of each kind.
Distributions ==
    { ConstantFloat(Const(1)), UniformFloat(Const(0), Const(2)),
      Normal(Const(1), Const(1)), Exponential(Const(1)) }
\* The templates of the model: each variant with each kind of distribution,
\* and the flat pulses with constant start, width and height.
PulseTemplates ==
    { [ kind |-> "Flat", start |-> d, width |-> d, height |-> d ] :
          d \in Distributions }
    \cup { [ kind |-> "Triangular", start |-> d, peak_time |-> d,
             width |-> d, height |-> d ] : d \in Distributions }
    \cup { [ kind |-> "Gaussian", height |-> d, peak_time |-> d, sd |-> d ] :
               d \in Distributions }
    \cup { [ kind |-> "BackToBackExp", peak_height |-> d, peak_time |-> d,
             spread |-> d, falling |-> d, rising |-> d ] :
               d \in Distributions }
    \cup { [ kind |-> "Flat",
             start |-> ConstantFloat(Const(s)),
             width |-> ConstantFloat(Const(w)),
             height |-> ConstantFloat(Const(a)) ] :
               s \in 0..MaxStart, w \in 0..MaxWidth, a \in {1, 2} }

\* The number of distributions PulseEvent::sample samples for a template.
Fields(template) ==
    CASE template.kind = "Flat" -> 3
      [] template.kind = "Triangular" -> 4
      [] template.kind = "Gaussian" -> 3
      [] template.kind = "BackToBackExp" -> 5

\* The readings of the clock during one call of PulseEvent::sample: one per
\* distribution (a template all of constants never reads it).
ClockReadings(template) ==
    IF template.kind = "Flat" /\ template.start.kind = "ConstantFloat"
           /\ template.width.kind = "ConstantFloat"
           /\ template.height.kind = "ConstantFloat"
    THEN { [ k \in 1..Fields(template) |-> 0 ] }
    ELSE [ 1..Fields(template) -> 0..MaxNanos ]

InitPulses ==
    /\ NoPipeline
    /\ NoChannelCall
    /\ NoMain
    /\ NoAdvancedCall
    /\ NoTracesCall
    /\ NoListsCall
    /\ NoSimulation
    /\ NoNoise
    /\ NoDigitiserConfig
    /\ NoLookup
    /\ NoPulses
    /\ NoWindowIter

\* PulseEvent::sample is called, at whatever time.
SamplePulse ==
    /\ pulse_samples = << >>
    /\ \E template \in PulseTemplates, frame \in {0, 1} :
       \E nows \in ClockReadings(template) :
         pulse_samples' = <<[ template |-> template, frame |-> frame,
                              nows |-> nows,
                              result |-> PulseEvent_sample(
                                  template, frame, [ n \in {} |-> "" ], nows) ]>>
    /\ UNCHANGED value_call
    /\ UNCHANGED exceptPulses

\* PulseEvent::sample is called again with the same template and frame, at
\* whatever time.
SamplePulseAgain ==
    /\ Len(pulse_samples) = 1
    /\ LET template == pulse_samples[1].template
           frame == pulse_samples[1].frame
       IN  \E nows \in ClockReadings(template) :
             pulse_samples' = Append(pulse_samples,
                 [ template |-> template, frame |-> frame, nows |-> nows,
                   result |-> PulseEvent_sample(
                       template, frame, [ n \in {} |-> "" ], nows) ])
    /\ UNCHANGED value_call
    /\ UNCHANGED exceptPulses

\* get_value_at is called on a flat or triangular pulse sampled.
GetValueAt ==
    /\ value_call = None
    /\ \E c \in DOMAIN pulse_samples, time \in (0 - 1)..MaxValueTime :
         /\ pulse_samples[c].result # Panicked
         /\ pulse_samples[c].result.ok
         /\ pulse_samples[c].result.value.kind \in {"Flat", "Triangular"}
         /\ value_call' = Some(
                [ event |-> pulse_samples[c].result.value,
                  time |-> time,
                  value |-> get_value_at(pulse_samples[c].result.value, time) ])
    /\ UNCHANGED pulse_samples
    /\ UNCHANGED exceptPulses

NextPulses == SamplePulse \/ SamplePulseAgain \/ GetValueAt

SpecPulses == InitPulses /\ [][NextPulses]_vars

(***************************************************************************)
(* WindowIter over a source of trace points (time, value), with a window   *)
(* of a given size and time shift: the window reports an output ready once *)
(* it holds `size` values, and its output is then the values it holds.     *)
(***************************************************************************)
Window_new(size, shift) == [ size |-> size, shift |-> shift, values |-> << >> ]

\* Window::push: the window after the push and whether an output is ready.
Window_push(w, value) ==
    LET values == IF Len(w.values) < w.size
                  THEN Append(w.values, value)
                  ELSE Append(Tail(w.values), value)
    IN  [ window |-> [w EXCEPT !.values = values],
          ready |-> Len(values) = w.size ]

\* Window::output
Window_output(w) ==
    IF Len(w.values) = w.size THEN Some(w.values) ELSE None

\* Window::apply_time_shift
Window_apply_time_shift(w, time) == time - w.shift

\* WindowIter::next yielding the time of the input sample as it is.
RECURSIVE WindowIter_next_time_of_input(_, _, _)
WindowIter_next_time_of_input(w, source, position) ==
    IF position = Len(source)
    THEN [ window |-> w, position |-> position, ret |-> None,
           pushes |-> << >> ]
    ELSE LET val == source[position + 1]
             pushed == Window_push(w, val.value)
             output == Window_output(pushed.window)
             report == [ time |-> val.time, ready |-> pushed.ready,
                         output |-> output ]
         IN  IF pushed.ready
             THEN [ window |-> pushed.window,
                    position |-> position + 1,
                    ret |-> IF output = None
                            THEN None
                            ELSE Some([ time |-> val.time,
                                        value |-> output[1] ]),
                    pushes |-> <<report>> ]
             ELSE LET rest == WindowIter_next_time_of_input(
                                  pushed.window, source, position + 1)
                  IN  [ rest EXCEPT !.pushes = <<report>> \o @ ]

\* WindowIter::next, its loop run to its return: the window and the position
\* in the source after the call, the returned Option<Item>, and what the
\* window reported on each sample consumed.
RECURSIVE WindowIter_next(_, _, _)
WindowIter_next(w, source, position) ==
    IF position = Len(source)
    THEN [ window |-> w, position |-> position, ret |-> None,
           pushes |-> << >> ]
    ELSE LET val == source[position + 1]
             pushed == Window_push(w, val.value)
             output == Window_output(pushed.window)
             report == [ time |-> val.time, ready |-> pushed.ready,
                         output |-> output ]
         IN  IF pushed.ready
             THEN [ window |-> pushed.window,
                    position |-> position + 1,
                    ret |-> IF output = None
                            THEN None
                            ELSE Some([ time |-> Window_apply_time_shift(
                                                     pushed.window, val.time),
                                        value |-> output[1] ]),
                    pushes |-> <<report>> ]
             ELSE LET rest == WindowIter_next(pushed.window, source,
                                              position + 1)
                  IN  [ rest EXCEPT !.pushes = <<report>> \o @ ]

\* The trace points of a source, and the windows.
TracePoints == [ time : 0..2, value : {0, 1} ]
Windows == { Window_new(size, shift) : size \in 1..MaxWindowSize,
                                       shift \in 0..MaxShift }

\* WindowIter::new(source, window_function)
InitWindow ==
    /\ iter_window \in { Some(w) : w \in Windows }
    /\ iter_source \in SeqsUpTo(TracePoints, MaxSourceLen)
    /\ iter_position = 0
    /\ iter_pushes = << >>
    /\ iter_returned = << >>
    /\ NoPipeline
    /\ NoChannelCall
    /\ NoMain
    /\ NoAdvancedCall
    /\ NoTracesCall
    /\ NoListsCall
    /\ NoSimulation
    /\ NoNoise
    /\ NoDigitiserConfig
    /\ NoLookup
    /\ NoPulses

\* WindowIter::next is called.
WindowIterNext ==
    /\ Len(iter_returned) < MaxNextCalls
    /\ LET res == WindowIter_next(iter_window[1], iter_source, iter_position)
       IN  /\ iter_window' = Some(res.window)
           /\ iter_position' = res.position
           /\ iter_pushes' = iter_pushes \o res.pushes
           /\ iter_returned' = Append(iter_returned,
                                      [ ret |-> res.ret,
                                        position |-> res.position ])
    /\ UNCHANGED iter_source
    /\ UNCHANGED exceptWindow

NextWindow == WindowIterNext

SpecWindow == InitWindow /\ [][NextWindow]_vars

(***************************************************************************)
(* Reading the history.                                                    *)
(***************************************************************************)
Calls == 1..Len(history)

\* The calls of signal() that returned an event.
Emissions == { j \in Calls : history[j].ret # None }

\* The calls of signal() on which the detector left Waiting (a partial event
\* is created on exactly these).
Departures == { i \in Calls : /\ history[i].from.tag = "Waiting"
                              /\ history[i].to.tag # "Waiting" }

\* The calls on which the state went from Detected to Ending, CoolingDown or
\* Waiting.
DetectedExits == { i \in Calls : /\ history[i].from.tag = "Detected"
                                 /\ history[i].to.tag \in
                                        {"Ending", "CoolingDown", "Waiting"} }

\* The last departure from Waiting at or before call j (0 if there is none).
EntryOf(j) ==
    LET before == { i \in Departures : i <= j }
    IN  IF before = {} THEN 0
        ELSE CHOOSE i \in before : \A k \in before : k <= i

\* The transition table of the specification, row by row.
TableState(p, from, t, dv) ==
    IF from.tag = "Waiting" /\ dv >= p.begin_threshold
    THEN IF p.begin_duration > 0 THEN Beginning(t) ELSE Detected
    ELSE IF from.tag = "Beginning" /\ t - from.time_begun >= p.begin_duration
    THEN Detected
    ELSE IF from.tag = "Beginning" /\ dv < p.begin_threshold
    THEN Waiting
    ELSE IF from.tag = "Detected" /\ dv <= p.end_threshold
    THEN IF p.end_duration > 0 THEN Ending(t)
         ELSE IF p.cool_off > 0 THEN CoolingDown(t) ELSE Waiting
    ELSE IF from.tag = "Ending" /\ t - from.time_ended >= p.end_duration
    THEN IF p.cool_off > 0 THEN CoolingDown(t) ELSE Waiting
    ELSE IF from.tag = "Ending" /\ dv > p.end_threshold
    THEN Detected
    ELSE IF from.tag = "CoolingDown" /\ t - from.time_ended >= p.cool_off
    THEN Waiting
    ELSE from

C3_Original ==
    Cardinality(Emissions) = Cardinality(DetectedExits)

\* C3 as amended: the number of events emitted equals the number of
\* transitions from Detected to Ending, CoolingDown or Waiting made while a
\* partial event is live; with end_duration = 0 every such transition is made
\* while a partial event is live, so the two numbers of the claim agree.
C3_LiveExits ==
    /\ Emissions = { i \in DetectedExits : history[i].live }
    /\ parameters.end_duration = 0 =>
           Cardinality(Emissions) = Cardinality(DetectedExits)

\* C3 witness: with end_duration > 0 a detection was emitted on entry to
\* Ending, resumed, and left Detected a second time without an event.
C3_Witness ==
    /\ parameters.end_duration > 0
    /\ Emissions # {}
    /\ \E i \in DetectedExits : ~history[i].live

\* The calls from the departure from Waiting of the detection emitted on call
\* j through call j: the samples processed while its partial event was live.
LiveCalls(j) == EntryOf(j)..j

\* C4: the time of every emitted event is the time of the first sample that
\* attains the maximum first derivative among the samples processed while the
\* event's partial event was live, from the sample on which the detector left
\* Waiting through the emitting sample.
C4_FirstMaxDerivative ==
    \A j \in Emissions :
        /\ EntryOf(j) > 0
        /\ \E k \in LiveCalls(j) :
             /\ \A m \in LiveCalls(j) : history[m].value[2] <= history[k].value[2]
             /\ \A m \in LiveCalls(j) :
                    history[m].value[2] = history[k].value[2] => k <= m
             /\ history[j].ret[1].time = history[k].time

\* C4 witness: an event was emitted for a detection in which two samples
\* attained the maximum derivative.
C4_Witness ==
    \E j \in Emissions : \E k, m \in LiveCalls(j) :
        /\ k < m
        /\ history[k].value[2] = history[m].value[2]
        /\ \A n \in LiveCalls(j) : history[n].value[2] <= history[k].value[2]

CallsIn(lo, hi) == { k \in Calls : lo <= history[k].time /\ history[k].time < hi }

\* C6: with begin_duration = d > 0, an event whose detection left Waiting at
\* time t0 is emitted only if dv >= begin_threshold held at every sample with
\* time in [t0, t0 + d); if a sample with time in (t0, t0 + d) has
\* dv < begin_threshold, the partial event is dropped on the first such
\* sample, the detector returns to Waiting and no event is emitted for that
\* detection.
C6_BeginDuration ==
    parameters.begin_duration > 0 =>
        \A i \in Departures :
            LET t0 == history[i].time
                low == { k \in CallsIn(t0 + 1, t0 + parameters.begin_duration) :
                           history[k].value[2] < parameters.begin_threshold }
            IN  /\ \A j \in Emissions : EntryOf(j) = i =>
                       \A k \in CallsIn(t0, t0 + parameters.begin_duration) :
                           history[k].value[2] >= parameters.begin_threshold
                /\ low # {} =>
                       /\ \A j \in Emissions : EntryOf(j) # i
                       /\ \E k \in low :
                            /\ \A m \in low : k <= m
                            /\ history[k].live
                            /\ history[k].after = None
                            /\ history[k].ret = None
                            /\ history[k].to = Waiting

\* C6 witness: with begin_duration > 0 a detection met a sample below
\* begin_threshold before the duration had passed.
C6_Witness ==
    /\ parameters.begin_duration > 0
    /\ \E i \in Departures :
         \E k \in CallsIn(history[i].time + 1,
                          history[i].time + parameters.begin_duration) :
             history[k].value[2] < parameters.begin_threshold

C8_Original ==
    parameters.end_duration > 0 =>
        \A j \in Emissions :
            \A k \in CallsIn(history[j].time - parameters.end_duration,
                             history[j].time) :
                history[k].value[2] <= parameters.end_threshold

C10_Original ==
    ( /\ source_done
      /\ history # << >>
      /\ history[Len(history)].after # None ) =>
        yielded[Len(yielded)] = Some(into_event(history[Len(history)].after[1]))

\* C11: a pipeline given an empty input yields None on the first call of
\* next() and on every later call, with the detector left in Waiting without a
\* partial event.
C11_EmptyYieldsNone ==
    /\ \A n \in 1..Len(yielded) : yielded[n] = None
    /\ state = Waiting
    /\ partial_event = None
    /\ source_done <=> yielded # << >>

\* C11 witness: next() was called three times on a raw trace of no sample.
C11_Witness ==
    /\ index = 0
    /\ Len(yielded) = 3

\* C12: every sample WindowIter produces is passed to the detector exactly
\* once and in input order (the i-th call of signal() gets the sample of time
\* i, whose v - dv is the v of the call before it and whose v is the raw value
\* consumed last), and the events are yielded in the order of the samples
\* that triggered them, none buffered, duplicated or reordered; their times
\* increase.
C12_SampleOrder ==
    /\ Len(history) = Max(index - 1, 0)
    /\ \A i \in Calls :
         /\ history[i].time = i
         /\ i > 1 => history[i].value[1] - history[i].value[2]
                         = history[i - 1].value[1]
    /\ history # << >> => history[Len(history)].value[1] = window[2]
    /\ SomeItems(yielded) = SomeItems([i \in Calls |-> history[i].ret])
    /\ \A n, m \in 1..Len(SomeItems(yielded)) :
         n < m => SomeItems(yielded)[n][1].time < SomeItems(yielded)[m][1].time

\* C12 witness: two events were yielded before the source ended.
C12_Witness ==
    /\ source_done
    /\ Len(SomeItems(yielded)) >= 2

\* The peak height mode the detector of the pipeline does not have.
OtherMode == CHOOSE m \in PeakHeightModes : m # peak_height_mode

\* The values signal() returns to a second detector with the same parameters
\* and the other peak height mode, fed the samples the detector was fed.
OtherRets ==
    RunDetector(parameters, OtherMode, history, Len(history)).rets

\* C13: two differential detectors with the same parameters and different
\* peak height modes, fed the same input, are in the same state after every
\* sample and emit events on exactly the same samples, with the same event
\* times and base heights.
C13_ModeIndependent ==
    LET other == RunDetector(parameters, OtherMode, history, Len(history))
    IN  /\ other.state = state
        /\ ~source_done =>
               (other.partial_event = None <=> partial_event = None)
        /\ \A i \in Calls :
             /\ other.rets[i] = None <=> history[i].ret = None
             /\ history[i].ret # None =>
                    /\ other.rets[i][1].time = history[i].ret[1].time
                    /\ other.rets[i][1].base_height
                           = history[i].ret[1].base_height

\* C13 witness: an event was emitted whose peak height differs between the
\* two modes.
C13_Witness ==
    \E j \in Emissions :
        OtherRets[j][1].peak_height # history[j].ret[1].peak_height

\* C14 as stated: for every channel trace, an empty or an absent voltage
\* array included, and every detector setting, find_channel_events returns a
\* (times, intensities) pair and does not panic.
C14_Original ==
    channel_result # None =>
        /\ channel_result[1].tag = "Returned"
        /\ Len(channel_result[1].time) = Len(channel_result[1].voltage)

(***************************************************************************)
(* Reading the polls.                                                      *)
(***************************************************************************)
Polls == DOMAIN polls

\* The trace messages handled: the polls whose message carried a payload with
\* the trace identifier that decoded.
TracePolls == { i \in Polls : polls[i].kind = "Trace" }

\* The number of the delivery future made for the trace message of poll i.
FutureOf(i) == Cardinality({ k \in TracePolls : k <= i })

\* The delivery futures the channel accepted.
Enqueued == { FutureOf(i) : i \in { k \in TracePolls : polls[k].offered = "Ok" } }

\* The elements of a sequence.
Range(seq) == { seq[n] : n \in DOMAIN seq }

C16_Original ==
    ( /\ queue_at_close # None
      /\ producer_pc \in {"done", "cancelled"} ) =>
        \A f \in Range(queue_at_close[1]) :
            /\ f \in Range(awaited)
            /\ delivery[f] # "Pending"

\* C17 as stated: after a termination signal has been delivered the main loop
\* processes no further trace message, and main returns success.
C17_Original ==
    /\ \A i \in TracePolls : ~polls[i].signalled
    /\ ( sigint_sent /\ main_pc = "exited" ) => main_result = Some("Ok")

C20_TracesInOrder ==
    traces_result # None =>
        LET event_lists == traces_call[1].event_lists
            time_bins == traces_call[1].simulation.time_bins
            result == traces_result[1]
        IN  /\ result.ok =>
                /\ Len(result.value) = Len(event_lists)
                /\ \A i \in DOMAIN result.value :
                     /\ result.value[i].event_list = i
                     /\ result.value[i].samples =
                            [ t \in 1..time_bins |-> event_lists[i].height ]
                     /\ Len(result.value[i].samples) = time_bins
            /\ (\E i \in DOMAIN event_lists : event_lists[i].fails)
                   => ~result.ok

\* C20 witness: three traces of two samples were returned for three event
\* lists of different heights whose tasks completed in the order 3, 1, 2.
C20_Witness ==
    /\ traces_result # None
    /\ traces_result[1].ok
    /\ Len(traces_result[1].value) = 3
    /\ traces_order = <<3, 1, 2>>
    /\ traces_call[1].simulation.time_bins = 2
    /\ traces_call[1].event_lists[1].height
           # traces_call[1].event_lists[3].height

\* C20 witness of the failure: the task of the second of three event lists
\* failed after the others had built their traces, and an error was returned.
C20_WitnessError ==
    /\ traces_result # None
    /\ ~traces_result[1].ok
    /\ traces_order = <<1, 3, 2>>
    /\ traces_call[1].event_lists[2].fails
    /\ ~traces_call[1].event_lists[1].fails
    /\ ~traces_call[1].event_lists[3].fails

\* C21: generate_event_lists returns EventListIndexOutOfRange, and runs no
\* sampling task, when index is not below the number of event-list templates;
\* otherwise when it returns Ok it returns exactly `repeat` event lists, the
\* i-th the one sampled by the i-th task from the template at index, and when
\* any repetition fails it returns an error and no event list.
C21_EventLists ==
    lists_result # None =>
        LET call == lists_call[1]
            result == lists_result[1]
            sampled == { i \in DOMAIN lists_slots : lists_slots[i] # None }
        IN  IF call.index >= Len(call.simulation.event_lists)
            THEN /\ result = Err([ EventListIndexOutOfRange |->
                        <<call.index, Len(call.simulation.event_lists)>> ])
                 /\ lists_order = << >>
                 /\ sampled = {}
            ELSE /\ sampled = 1..call.repeat
                 /\ result.ok =>
                      /\ Len(result.value) = call.repeat
                      /\ \A i \in DOMAIN result.value :
                           /\ result.value[i] = lists_slots[i][1].value
                           /\ result.value[i].task = i
                           /\ result.value[i].source
                                  = call.simulation.event_lists[call.index + 1]
                 /\ (\E i \in sampled : ~lists_slots[i][1].ok) =>
                      /\ ~result.ok
                      /\ DOMAIN result = {"ok", "error"}
                 /\ (\A i \in sampled : lists_slots[i][1].ok) => result.ok

\* C21 witness: three repetitions of the second template were sampled, their
\* tasks completing in the order 2, 3, 1, and three event lists returned.
C21_Witness ==
    /\ lists_result # None
    /\ lists_result[1].ok
    /\ lists_call[1].index = 1
    /\ lists_call[1].repeat = 3
    /\ lists_order = <<2, 3, 1>>
    /\ Len(lists_result[1].value) = 3

\* C21 witness of the failure of one repetition: the second of three failed
\* and an error was returned.
C21_WitnessError ==
    /\ lists_result # None
    /\ ~lists_result[1].ok
    /\ Len(lists_slots) = 3
    /\ ~lists_slots[2][1].ok
    /\ lists_slots[1][1].ok
    /\ lists_slots[3][1].ok

\* C21 witness of the range check: index equal to the number of templates.
C21_WitnessOutOfRange ==
    /\ lists_result # None
    /\ lists_call[1].index = Len(lists_call[1].simulation.event_lists)
    /\ lists_call[1].repeat > 0
    /\ ~lists_result[1].ok

\* C22 as stated: in every loaded Simulation each pulse_index of each
\* event-list template is below the number of pulse templates, and
\* get_random_pulse_template never meets a pulse_index that is not.
C22_Original ==
    /\ (loaded # None /\ loaded[1].ok) =>
           \A e \in DOMAIN loaded[1].value.event_lists :
               \A n \in DOMAIN loaded[1].value.event_lists[e].pulses :
                   loaded[1].value.event_lists[e].pulses[n].pulse_index
                       < Len(loaded[1].value.pulses)
    /\ template_result # None => template_result[1].ok

\* C23 as stated: after any calls of noisify the buffer holds at most as many
\* samples as the smoothing_window_length the last call read.
C23_Original ==
    (noise_log # << >> /\ noise_log[Len(noise_log)].window_len.ok) =>
        Len(noise_prev) <= noise_log[Len(noise_log)].window_len.value

\* The samples the calls of noisify drew so far, oldest first.
Drawn ==
    LET ok == SelectSeq(noise_log,
                        LAMBDA c : c.sample # None /\ c.sample[1].ok)
    IN  [ k \in DOMAIN ok |-> ok[k].sample[1].value ]

\* The last n entries of a sequence.
Last(seq, n) == SubSeq(seq, Len(seq) - n + 1, Len(seq))

\* C24: with a window length L >= 1 that was the same at every call so far, a
\* call of noisify that draws a sample first evicts the oldest sample if the
\* buffer holds L, pushes the sample, and returns value plus the mean of the
\* buffer, which then holds the last min(k, L) of the k samples drawn so far,
\* a sample drawn outside the bounds being 0; a call whose sampling fails
\* leaves the buffer with no sample it did not hold.
C24_MovingAverage ==
    \A L \in 1..(MaxWindow + 1) :
        (/\ noise_log # << >>
         /\ \A c \in DOMAIN noise_log : noise_log[c].window_len = Ok(L))
        => LET call == noise_log[Len(noise_log)]
               k == Len(Drawn)
               kept == IF k < L THEN k ELSE L
           IN  IF call.sample[1].ok
               THEN /\ noise_prev = Append(IF Len(call.before) = L
                                     THEN Tail(call.before)
                                     ELSE call.before,
                                     call.sample[1].value)
                    /\ noise_prev = Last(Drawn, kept)
                    /\ call.result.ok
                    /\ call.result.value.den = kept
                    /\ call.result.value.num
                           = call.value * kept + Sum(Last(Drawn, kept))
               ELSE /\ ~call.result.ok
                    /\ Len(noise_prev) <= Len(call.before)
                    /\ \A i \in DOMAIN noise_prev :
                           \E j \in DOMAIN call.before : noise_prev[i] = call.before[j]

\* C24 witness: with window length 2 the third call found the buffer full,
\* evicted a sample drawn outside the bounds (0) and returned the mean of the
\* two samples drawn after it.
C24_Witness ==
    /\ Len(noise_log) = 3
    /\ \A c \in 1..3 : noise_log[c].window_len = Ok(2)
    /\ \A c \in 1..3 : noise_log[c].result.ok
    /\ noise_log[3].before = <<0, 2>>
    /\ noise_prev = <<2, 1>>
    /\ noise_log[3].result = Ok(Quotient(noise_log[3].value * 2 + 3, 2))

\* C24 witness of a sampling error: with window length 2 the third call
\* evicted a sample and then failed to draw one.
C24_WitnessError ==
    /\ Len(noise_log) = 3
    /\ \A c \in 1..3 : noise_log[c].window_len = Ok(2)
    /\ noise_log[3].sample # None
    /\ ~noise_log[3].sample[1].ok
    /\ Len(noise_log[3].before) = 2
    /\ Len(noise_prev) = 1

\* For n digitisers of m channels each, generate_channels returned the
\* channels 0..n*m-1 and generate_digitisers returned n digitisers with the
\* ids 0..n-1, digitiser d owning the channel indices d*m .. (d+1)*m - 1, the
\* index sets pairwise disjoint and covering every channel once.
Partitioned(n, m) ==
    LET channels == generated_channels[1].value
        digitisers == generated_digitisers[1].value
    IN  /\ channels = [ i \in 1..(n * m) |-> i - 1 ]
        /\ Len(digitisers) = n
        /\ \A k \in 1..n :
             /\ digitisers[k].id = k - 1
             /\ digitisers[k].channel_indices
                    = [ i \in 1..m |-> (k - 1) * m + i - 1 ]
        /\ \A k, l \in 1..n :
             k # l => Range(digitisers[k].channel_indices)
                          \cap Range(digitisers[l].channel_indices) = {}
        /\ UNION { Range(digitisers[k].channel_indices) : k \in 1..n }
               = Range(channels)

\* C25 as stated: for every auto-digitisers configuration with n digitisers of
\* m channels each the channels and digitisers generated are partitioned as
\* above.
C25_Original ==
    (/\ generated_channels # None
     /\ generated_digitisers # None
     /\ digitiser_config[1].config.kind = "AutoDigitisers"
     /\ generated_channels[1].ok
     /\ generated_digitisers[1].ok)
    => Partitioned(
           NumConstant_value(digitiser_config[1].config.num_digitisers,
                             digitiser_config[1].env, "usize").value,
           digitiser_config[1].config.num_channels_per_digitiser.v)

\* The lookup made reads an environment variable that is unset, or whose text
\* does not parse as the number asked for.
LookupFails ==
    LET call == lookup_call[1]
        name == call.on.environment_variable
    IN  /\ call.on.kind \in {"FromEnvVar", "TextEnv"}
        /\ \/ name \notin DOMAIN call.env
           \/ /\ call.of # "TextConstant"
              /\ ~parse(call.T, call.env[name]).ok

\* C26 as stated: no lookup of the configuration panics, and each of
\* NumConstant::value, NumExpression::value and TextConstant::value returns an
\* error value when the variable it reads is unset or cannot be parsed.
C26_Original ==
    lookup_result # None =>
        /\ lookup_result[1] # Panicked
        /\ LookupFails =>
               /\ DOMAIN lookup_result[1] = {"ok", "error"}
               /\ ~lookup_result[1].ok

\* C27 as stated: two calls of PulseEvent::sample with the same template and
\* the same frame return equal pulse events, whatever the times of the calls.
C27_Original ==
    \A c, d \in DOMAIN pulse_samples :
        (/\ pulse_samples[c].template = pulse_samples[d].template
         /\ pulse_samples[c].frame = pulse_samples[d].frame)
        => pulse_samples[c].result = pulse_samples[d].result

\* C28 as stated: for a Flat pulse event with start s, stop s + w and
\* amplitude a, get_value_at(t) is a for s <= t < s + w and 0 for every other
\* t.
C28_Original ==
    (value_call # None /\ value_call[1].event.kind = "Flat") =>
        LET event == value_call[1].event
            t == value_call[1].time
        IN  value_call[1].value
                = IF event.start <= t /\ t < event.stop
                  THEN event.amplitude
                  ELSE 0

\* C30: in every state of the detector, the state is Beginning only if
\* begin_duration is nonzero, Ending only if end_duration is nonzero and
\* CoolingDown only if cool_off is nonzero; so is the state every call of
\* signal() found and left.
C30_AllowedStates ==
    LET Allowed(st) ==
            /\ st.tag = "Beginning" => parameters.begin_duration # 0
            /\ st.tag = "Ending" => parameters.end_duration # 0
            /\ st.tag = "CoolingDown" => parameters.cool_off # 0
    IN  /\ Allowed(state)
        /\ \A i \in Calls : Allowed(history[i].from) /\ Allowed(history[i].to)

\* C30 witness: with the three durations nonzero the detector has been in
\* Beginning and in Ending and is in CoolingDown.
C30_Witness ==
    /\ state.tag = "CoolingDown"
    /\ \E i \in Calls : history[i].to.tag = "Beginning"
    /\ \E i \in Calls : history[i].to.tag = "Ending"
    /\ parameters.begin_duration # 0
    /\ parameters.end_duration # 0
    /\ parameters.cool_off # 0

\* C30 witness of the other side: with the three durations zero the detector
\* went from Waiting to Detected and back to Waiting.
C30_WitnessZero ==
    /\ parameters.begin_duration = 0
    /\ parameters.end_duration = 0
    /\ parameters.cool_off = 0
    /\ state.tag = "Waiting"
    /\ \E i \in Calls : /\ history[i].from.tag = "Waiting"
                        /\ history[i].to.tag = "Detected"
    /\ \E i \in Calls : /\ history[i].from.tag = "Detected"
                        /\ history[i].to.tag = "Waiting"

(***************************************************************************)
(* The state changes and the bookkeeping of partial events.                *)
(***************************************************************************)

\* The "Possible State Changes" table in the documentation of update_state.
DocumentedNextStates(tag) ==
    CASE tag = "Waiting" -> {"Beginning", "Detected"}
      [] tag = "Beginning" -> {"Waiting", "Detected"}
      [] tag = "Detected" -> {"Ending", "CoolingDown", "Waiting"}
      [] tag = "Ending" -> {"Detected", "CoolingDown"}
      [] tag = "CoolingDown" -> {"Waiting"}

\* The calls of signal() on which update_state changed the state to another
\* variant.
StateChanges == { i \in Calls : history[i].from.tag # history[i].to.tag }

Drops == { i \in Calls : /\ history[i].from.tag = "Beginning"
                         /\ history[i].to.tag = "Waiting" }

\* C35: after every prefix of the input, the number of partial events created
\* on leaving Waiting equals the number of events emitted plus the number of
\* partial events dropped on Beginning -> Waiting plus one if a partial event
\* is live; and no two emitted events belong to the same departure from
\* Waiting.
C35_Accounting ==
    /\ \A n \in Calls :
         Cardinality({ i \in Departures : i <= n }) =
             Cardinality({ i \in Emissions : i <= n })
               + Cardinality({ i \in Drops : i <= n })
               + (IF history[n].after # None THEN 1 ELSE 0)
    /\ \A i, j \in Emissions : i # j => EntryOf(i) # EntryOf(j)
    /\ ~source_done =>
           /\ history = << >> => partial_event = None
           /\ history # << >> => partial_event = history[Len(history)].after

\* C35 witness: a partial event was dropped and the partial event of a later
\* departure from Waiting is live.
C35_Witness ==
    /\ Drops # {}
    /\ ~source_done
    /\ partial_event # None

\* C35 witness: an event was emitted and the partial event of a later
\* departure from Waiting is live.
C35_WitnessEmitted ==
    /\ Emissions # {}
    /\ ~source_done
    /\ partial_event # None

\* C36: after every signal() call, if the state is Waiting, Ending or
\* CoolingDown then no partial event is live, and if the state is Beginning
\* then a partial event is live.
C36_LiveByState ==
    /\ \A i \in Calls :
         /\ history[i].to.tag \in {"Waiting", "Ending", "CoolingDown"} =>
                history[i].after = None
         /\ history[i].to.tag = "Beginning" => history[i].after # None
    /\ ~source_done /\ state.tag \in {"Waiting", "Ending", "CoolingDown"} =>
           partial_event = None
    /\ ~source_done /\ state.tag = "Beginning" => partial_event # None

\* C36 witness: a call that entered Ending took the live partial event, and
\* another call left the detector in Beginning.
C36_Witness ==
    /\ \E i \in Calls : /\ history[i].to.tag = "Ending"
                        /\ history[i].live
                        /\ history[i].after = None
    /\ \E i \in Calls : history[i].to.tag = "Beginning"

\* The events EventIter has yielded, in the order it yielded them.
YieldedEvents == SelectSeq(yielded, LAMBDA item : item # None)

\* C37: the input sample times being strictly increasing, every emitted event
\* has a time between the time of the sample on which its detection left
\* Waiting and the time of the sample on which it was emitted, inclusive, and
\* the times of successively emitted events are strictly increasing.
C37_EventTimes ==
    /\ \A i, j \in Calls : i < j => history[i].time < history[j].time
    /\ \A j \in Emissions :
         /\ EntryOf(j) # 0
         /\ history[EntryOf(j)].time <= history[j].ret[1].time
         /\ history[j].ret[1].time <= history[j].time
    /\ \A i, j \in Emissions :
         i < j => history[i].ret[1].time < history[j].ret[1].time
    /\ \A a, b \in 1..Len(YieldedEvents) :
         a < b => YieldedEvents[a][1].time < YieldedEvents[b][1].time

\* C37 witness: two events were emitted and yielded, one after the other.
C37_Witness ==
    /\ \E i, j \in Emissions : i < j
    /\ Len(YieldedEvents) >= 2

\* C37 witness: an event was emitted with a time after the sample on which
\* its detection left Waiting and before the sample on which it was emitted.
C37_WitnessBetween ==
    \E i \in Emissions :
        /\ history[EntryOf(i)].time < history[i].ret[1].time
        /\ history[i].ret[1].time < history[i].time

\* The items WindowIter::next has returned, in order.
IterItems == SelectSeq(iter_returned, LAMBDA call : call.ret # None)

\* What the window reported on the input samples it reported an output ready
\* on, in input order.
ReadyPushes == SelectSeq(iter_pushes, LAMBDA report : report.ready)

\* C32: for a window with time shift s, WindowIter yields exactly one item for
\* each input sample on which push() reports the output ready, in input
\* order, with the time of that sample minus s and the value output(); the
\* samples on which push() reports not ready are consumed and yield nothing,
\* and the iterator ends when the source ends.
C32_WindowIter ==
    /\ Len(iter_pushes) = iter_position
    /\ \A i \in 1..Len(iter_pushes) :
         iter_pushes[i].time = iter_source[i].time
    /\ Len(IterItems) = Len(ReadyPushes)
    /\ \A i \in 1..Len(IterItems) :
         /\ IterItems[i].ret[1].time =
                ReadyPushes[i].time - iter_window[1].shift
         /\ ReadyPushes[i].output # None
         /\ IterItems[i].ret[1].value = ReadyPushes[i].output[1]
    /\ \A c \in 1..Len(iter_returned) :
         /\ iter_returned[c].ret # None =>
                iter_pushes[iter_returned[c].position].ready
         /\ iter_returned[c].ret = None =>
                iter_returned[c].position = Len(iter_source)

\* C32 witness: a window of shift 1 consumed a sample it was not ready on,
\* yielded two items and then ended with the source.
C32_Witness ==
    /\ iter_window # None
    /\ iter_window[1].shift = 1
    /\ Len(IterItems) = 2
    /\ \E i \in 1..Len(iter_pushes) : ~iter_pushes[i].ready
    /\ \E c \in 1..Len(iter_returned) : iter_returned[c].ret = None

\* The messages received that are skipped: no payload, a payload without the
\* trace identifier, or a payload that does not decode.
SkippedPolls ==
    { i \in Polls : polls[i].kind \in {"NoPayload", "Unexpected",
                                       "Undecodable"} }

\* C33: a received message with no payload, with an unexpected identifier, or
\* whose payload fails to decode produces no event list and no queue entry
\* and never stops the main loop (process_kafka_message returns Ok); a decode
\* failure is counted once as an UnableToDecodeMessage failure and an
\* unexpected identifier once as an Unexpected message.
C33_SkippedMessages ==
    /\ \A i \in SkippedPolls :
         /\ polls[i].built = 0
         /\ polls[i].offered = "None"
         /\ polls[i].queued_after = polls[i].queued
         /\ polls[i].result = "Ok"
         /\ polls[i].kind = "Undecodable" =>
                polls[i].counted = <<"FAILURES UnableToDecodeMessage">>
         /\ polls[i].kind = "Unexpected" =>
                polls[i].counted = <<"MESSAGES_RECEIVED Unexpected">>
         /\ polls[i].kind = "NoPayload" => polls[i].counted = << >>
    /\ Len(delivery) = Cardinality(TracePolls)
    /\ ( /\ polls # << >>
         /\ Len(polls) \in SkippedPolls
         /\ main_pc = "exited" ) => main_result = Some("Ok")

\* C33 witness: a message with an unexpected identifier and one that does
\* not decode were skipped and a trace message was handled after them.
C33_Witness ==
    \E j, k, l \in Polls :
        /\ polls[j].kind = "Unexpected"
        /\ polls[k].kind = "Undecodable"
        /\ polls[l].kind = "Trace"
        /\ j < l /\ k < l

\* C33 witness: a message with no payload was skipped and a trace message was
\* handled after it.
C33_WitnessNoPayload ==
    \E i, l \in Polls :
        /\ polls[i].kind = "NoPayload"
        /\ polls[l].kind = "Trace"
        /\ i < l

\* C33 witness: main has returned after the termination signal, the last
\* message it handled one that does not decode.
C33_WitnessExit ==
    /\ polls # << >>
    /\ Len(polls) \in SkippedPolls
    /\ main_pc = "exited"

\* C38: the offset of a message is committed only after process_kafka_message
\* has returned Ok for it (its delivery future was enqueued, or the message
\* was skipped as undecodable or unexpected); when enqueueing fails with Full
\* or Closed the main loop exits without committing that message.
C38_CommitAfterOk ==
    \A i \in Polls :
        /\ polls[i].committed =>
               /\ polls[i].kind # "KafkaError"
               /\ polls[i].result = "Ok"
               /\ polls[i].kind = "Trace" =>
                      /\ polls[i].offered = "Ok"
                      /\ polls[i].queued_after = polls[i].queued + 1
               /\ polls[i].kind # "Trace" => i \in SkippedPolls
        /\ polls[i].offered \in {"Full", "Closed"} =>
               /\ ~polls[i].committed
               /\ i = Len(polls)
               /\ main_pc = "exited"
               /\ main_result = Some(polls[i].offered)
        /\ ( polls[i].kind # "KafkaError" /\ polls[i].result = "Ok" ) =>
               polls[i].committed

\* C38 witness: a trace message was committed, and main then exited on a
\* trace message whose future the full channel refused.
C38_Witness ==
    \E i, j \in TracePolls :
        /\ i < j
        /\ polls[i].committed
        /\ polls[j].offered = "Full"
        /\ main_pc = "exited"

\* C38 witness: main exited on a trace message whose future the closed
\* channel refused.
C38_WitnessClosed ==
    \E j \in TracePolls :
        /\ polls[j].offered = "Closed"
        /\ main_pc = "exited"

\* C39 as stated: every delivery future that was enqueued is awaited by the
\* producer task, in FIFO order and one at a time, before the process exits,
\* on every exit path (termination signal, queue overflow, queue closed).
C39_Original ==
    /\ \A n, m \in DOMAIN awaited : n < m => awaited[n] < awaited[m]
    /\ Len(producer_future) <= 1
    /\ main_pc = "exited" => Enqueued \subseteq Range(awaited)

\* The channels the digitiser dig owns: those its channel indices select
\* from the channels generated.
ChannelsOwned(dig, channels) ==
    [ i \in 1..Len(dig.channel_indices) |->
        channels[dig.channel_indices[i] + 1] ]

\* C34 as stated: under a manual-digitisers configuration generate_digitisers
\* gives each digitiser the channel indices of its own `channels` interval,
\* so every channel returned by generate_channels is owned by the digitiser
\* it was configured for.
C34_Original ==
    (/\ generated_channels # None
     /\ generated_digitisers # None
     /\ digitiser_config[1].config.kind = "ManualDigitisers")
    => LET configured == digitiser_config[1].config.digitisers
           channels == generated_channels[1].value
           digitisers == generated_digitisers[1].value
       IN  /\ generated_channels[1].ok
           /\ generated_digitisers[1].ok
           /\ Len(digitisers) = Len(configured)
           /\ \A k \in 1..Len(configured) :
                /\ digitisers[k].id = configured[k].id
                /\ ChannelsOwned(digitisers[k], channels)
                       = range_inclusive(configured[k].channels)
           /\ Range(channels) =
                  UNION { Range(ChannelsOwned(digitisers[k], channels)) :
                              k \in 1..Len(digitisers) }

=============================================================================
